---- MODULE Spec2Model ----
(***************************************************************************)
(* lmbroker: a wire-protocol translation gateway between LLM clients and   *)
(* LLM provider APIs.  The module models                                   *)
(*   - the router (HandleChatCompletions / HandleEmbeddings),              *)
(*   - the Passthrough and Translation workflows, split at the blocking    *)
(*     backend call (http.Client.Do),                                      *)
(*   - the OpenAI-style and Anthropic-style adapters as operators over a   *)
(*     model of JSON text and of encoding/json.                            *)
(***************************************************************************)
EXTENDS Integers, Sequences, FiniteSets, TLC

VARIABLES
    registry,      \* Broker.cfg.Models: alias -> config.Model
    translateSrc,  \* which of the two HandleTranslation sources is built
    h,             \* the request being handled (handler-local state)
    codec,         \* adapter exerciser: unified value, wire body, decoded value
    inflight       \* the requests being handled at the same time, one per goroutine

vars == <<registry, translateSrc, h, codec, inflight>>

(***************************************************************************)
(* Go strings and byte slices.  A text is either plain characters (never   *)
(* valid JSON) or the text of a JSON document: its syntax tree (member     *)
(* order, duplicate members and number literals kept) plus a flag telling  *)
(* whether insignificant white space is present.  Strings built by "+" are *)
(* sequences of pieces, concatenated with \o.                              *)
(***************************************************************************)
Plain(p) == [x |-> "plain", p |-> p]
JsonText(ws, doc) == [x |-> "json", ws |-> ws, doc |-> doc]
EmptyText == Plain("")

\* JSON syntax trees.  Integer literals are kept exactly, as two digits in
\* base 2^30 (the value is hi * 2^30 + lo), so that literals beyond the
\* float64 mantissa can be written.
Base == 2^30
JStr(t) == [k |-> "str", s |-> t]
JNum(hi, lo) == [k |-> "num", hi |-> hi, lo |-> lo]
JInt(n) == JNum(0, n)
JNull == [k |-> "null"]
JBool(b) == [k |-> "bool", b |-> b]
JArr(a) == [k |-> "arr", a |-> a]
JObj(m) == [k |-> "obj", m |-> m]
Member(key, val) == [key |-> key, val |-> val]

\* Byte order of the object keys that occur; encoding/json sorts map keys.
KeyOrder ==
    <<"Description", "Function", "Name", "Parameters", "Type",
      "a", "arguments", "b", "choices", "code", "completion_tokens", "content",
      "created", "data", "description", "embedding", "error", "finish_reason",
      "function", "id", "index", "input", "input_schema", "input_tokens",
      "max_tokens", "message", "messages", "model", "name", "object",
      "output_tokens", "parameters", "prompt_tokens", "role", "seed",
      "stop_reason", "stream", "text", "tool_call_id", "tool_calls",
      "tool_choice", "tool_use_id", "tools", "total_tokens", "type", "usage">>

Keys(o) == {o.m[i].key : i \in DOMAIN o.m}
Has(o, key) == key \in Keys(o)
\* a later duplicate member overrides an earlier one
Get(o, key) ==
    LET idx == {i \in DOMAIN o.m : o.m[i].key = key}
        last == CHOOSE i \in idx : \A j \in idx : j <= i
    IN  o.m[last].val

\* A Go map[string]interface{} is a function from keys to values; Marshal
\* writes its members in sorted key order.
MapToObj(f) ==
    LET ks == SelectSeq(KeyOrder, LAMBDA key : key \in DOMAIN f)
    IN  JObj([i \in 1..Len(ks) |-> Member(ks[i], f[ks[i]])])
ObjToMap(o) == [key \in Keys(o) |-> Get(o, key)]

\* strconv.ParseFloat(_, 64) on an integer literal below 2^54: exact below
\* 2^53, rounded to the nearest even mantissa above.
Float64FromInt(n) ==
    IF n.hi < 2^23 \/ n.lo % 2 = 0 THEN n
    ELSE IF (n.lo - 1) % 4 = 0 THEN JNum(n.hi, n.lo - 1)
    ELSE IF n.lo + 1 = Base THEN JNum(n.hi + 1, 0)
    ELSE JNum(n.hi, n.lo + 1)

\* json.Unmarshal into interface{}: numbers become float64, objects become
\* maps (written back sorted), arrays are decoded element by element.
RECURSIVE ToInterface(_)
ToInterface(v) ==
    CASE v.k = "num" -> Float64FromInt(v)
      [] v.k = "arr" -> JArr([i \in DOMAIN v.a |-> ToInterface(v.a[i])])
      [] v.k = "obj" -> MapToObj([key \in Keys(v) |-> ToInterface(Get(v, key))])
      [] OTHER -> v

\* The exact value a JSON text denotes: members unordered, numbers exact.
RECURSIVE Value(_)
Value(v) ==
    CASE v.k = "arr" -> JArr([i \in DOMAIN v.a |-> Value(v.a[i])])
      [] v.k = "obj" -> MapToObj([key \in Keys(v) |-> Value(Get(v, key))])
      [] OTHER -> v

\* json.Unmarshal / json.Decoder.Decode: syntax check of the bytes
ParsesAsJSON(t) == t.x = "json"
\* json.Marshal of a value held as a syntax tree: compact output
Marshal(v) == JsonText(FALSE, v)
SemanticallyEqual(t1, t2) ==
    /\ ParsesAsJSON(t1) /\ ParsesAsJSON(t2)
    /\ Value(t1.doc) = Value(t2.doc)

\* Decoding into a Go string field: absent or null leaves "", a string is
\* copied, any other JSON type is an UnmarshalTypeError.
StringField(o, key) ==
    IF ~Has(o, key) \/ Get(o, key).k = "null" THEN [ok |-> TRUE, s |-> EmptyText]
    ELSE IF Get(o, key).k = "str" THEN [ok |-> TRUE, s |-> Get(o, key).s]
    ELSE [ok |-> FALSE, s |-> EmptyText]

(***************************************************************************)
(* net/http pieces                                                         *)
(***************************************************************************)
None == [none |-> TRUE]

\* r.Body: a stream that is read once
Stream(data) == [err |-> FALSE, data |-> data, pos |-> "start"]
BrokenStream == [err |-> TRUE, data |-> EmptyText, pos |-> "start"]
ReadAll(s) ==
    [err    |-> s.err,
     bytes  |-> IF s.pos = "start" /\ ~s.err THEN s.data ELSE EmptyText,
     stream |-> [s EXCEPT !.pos = "eof"]]

\* http.Header: canonical name -> list of values
NoHeader == [n \in {} |-> <<>>]
HeaderSet(hd, name, value) == (name :> <<value>>) @@ hd
HeaderAdd(hd, name, value) ==
    IF name \in DOMAIN hd THEN [hd EXCEPT ![name] = Append(@, value)]
    ELSE (name :> <<value>>) @@ hd
HeaderClone(hd) == [n \in DOMAIN hd |-> hd[n]]

\* http.Error(w, msg, code)
HttpError(msg, code) ==
    [status |-> code,
     header |-> HeaderSet(HeaderSet(NoHeader, "Content-Type",
                                    <<"text/plain; charset=utf-8">>),
                          "X-Content-Type-Options", <<"nosniff">>),
     body   |-> Plain(msg)]

StatusOK == 200
StatusBadRequest == 400
StatusNotFound == 404
StatusInternalServerError == 500
StatusBadGateway == 502

(***************************************************************************)
(* Configuration: the model registry                                       *)
(***************************************************************************)
Model(alias, type, url, model, apiKey) ==
    [Alias |-> alias, Type |-> type,
     Target |-> [URL |-> url, Model |-> model, APIKey |-> apiKey]]

StartupRegistry ==
    ("gpt-4" :> Model("gpt-4", "openai", <<"http://mock-openai.com/v1/">>,
                      "gpt-4", "test-key"))
 @@ ("gpt-4-local" :> Model("gpt-4-local", "openai",
                      <<"http://localhost:11434/v1/">>, "llama3.1", ""))
 @@ ("claude" :> Model("claude", "anthropic",
                      <<"http://mock-anthropic.com/v1/">>,
                      "claude-3-haiku-20240307", "test-key"))
 @@ ("palm" :> Model("palm", "gemini", <<"http://mock-gemini.com/v1/">>,
                      "palm", ""))

\* Broker.adapters, as built by New
Adapters == {"openai", "anthropic"}
AdapterFor(type) == IF type \in Adapters THEN type ELSE "nil"

(***************************************************************************)
(* Typed decoding helpers (encoding/json into struct fields)               *)
(***************************************************************************)
IsObjLike(v) == v.k \in {"obj", "null"}
AsObj(v) == IF v.k = "obj" THEN v ELSE JObj(<<>>)
Field(o, key) == IF Has(o, key) THEN Get(o, key) ELSE JNull
\* []T field: absent or null leaves nil, an array is decoded, else error
ArrayOK(o, key) == Field(o, key).k \in {"arr", "null"}
ArrayOf(o, key) == IF Field(o, key).k = "arr" THEN Field(o, key).a ELSE <<>>
\* struct or map field
ObjOK(o, key) == IsObjLike(Field(o, key))
ObjOf(o, key) == AsObj(Field(o, key))
BoolOK(o, key) == Field(o, key).k \in {"bool", "null"}
BoolOf(o, key) == IF Field(o, key).k = "bool" THEN Field(o, key).b ELSE FALSE
IntOK(o, key) == Field(o, key).k \in {"num", "null"}
\* interface{} field: nil when absent or null
AnyOf(o, key) == IF Field(o, key).k = "null" THEN None ELSE ToInterface(Field(o, key))
\* map[string]interface{} field
MapOf(o, key) == IF Field(o, key).k = "obj" THEN ToInterface(Field(o, key)) ELSE None

\* string concatenation
Concat(t1, t2) ==
    IF t1 = EmptyText THEN t2
    ELSE IF t2 = EmptyText THEN t1
    ELSE IF t1.x = "plain" /\ t2.x = "plain" THEN Plain(t1.p \o t2.p)
    ELSE [x |-> "cat", l |-> t1, r |-> t2]
\* fmt.Sprintf("%v", v) of a decoded JSON value
SprintfV(v) ==
    CASE v.k = "str" -> v.s
      [] v.k = "null" -> Plain("<nil>")
      [] OTHER -> [x |-> "fmt", v |-> v]

(***************************************************************************)
(* Unified model                                                           *)
(***************************************************************************)
UnifiedFunctionCall(name, arguments) == [Name |-> name, Arguments |-> arguments]
UnifiedToolCall(id, type, function) == [ID |-> id, Type |-> type, Function |-> function]
UnifiedMessage(role, content, toolCalls, toolCallID, name) ==
    [Role |-> role, Content |-> content, ToolCalls |-> toolCalls,
     ToolCallID |-> toolCallID, Name |-> name]
UnifiedFunction(name, description, parameters) ==
    [Name |-> name, Description |-> description, Parameters |-> parameters]
UnifiedTool(type, function) == [Type |-> type, Function |-> function]
UnifiedChatRequest(model, messages, stream, tools, toolChoice) ==
    [Model |-> model, Messages |-> messages, Stream |-> stream,
     Tools |-> tools, ToolChoice |-> toolChoice]

Ok(val) == [err |-> FALSE, val |-> val]
Err == [err |-> TRUE, val |-> None]

(***************************************************************************)
(* OpenAI-style adapter: requests                                          *)
(***************************************************************************)
OpenAIToolCallOK(v) ==
    /\ IsObjLike(v)
    /\ StringField(AsObj(v), "id").ok /\ StringField(AsObj(v), "type").ok
    /\ ObjOK(AsObj(v), "function")
    /\ StringField(ObjOf(AsObj(v), "function"), "name").ok
    /\ StringField(ObjOf(AsObj(v), "function"), "arguments").ok
OpenAIMessageOK(v) ==
    /\ IsObjLike(v)
    /\ StringField(AsObj(v), "role").ok /\ StringField(AsObj(v), "content").ok
    /\ StringField(AsObj(v), "tool_call_id").ok /\ StringField(AsObj(v), "name").ok
    /\ ArrayOK(AsObj(v), "tool_calls")
    /\ \A j \in DOMAIN ArrayOf(AsObj(v), "tool_calls") :
           OpenAIToolCallOK(ArrayOf(AsObj(v), "tool_calls")[j])
\* Tools []UnifiedTool: the struct has no json tags, keys match by name
UnifiedToolOK(v) ==
    /\ IsObjLike(v)
    /\ StringField(AsObj(v), "type").ok /\ ObjOK(AsObj(v), "function")
    /\ StringField(ObjOf(AsObj(v), "function"), "name").ok
    /\ StringField(ObjOf(AsObj(v), "function"), "description").ok
    /\ ObjOK(ObjOf(AsObj(v), "function"), "parameters")
DecodeUnifiedTool(v) ==
    LET f == ObjOf(AsObj(v), "function")
    IN  UnifiedTool(StringField(AsObj(v), "type").s,
                    UnifiedFunction(StringField(f, "name").s,
                                    StringField(f, "description").s,
                                    MapOf(f, "parameters")))

OpenAIDecodeToolCall(v) ==
    LET f == ObjOf(AsObj(v), "function")
    IN  UnifiedToolCall(StringField(AsObj(v), "id").s, StringField(AsObj(v), "type").s,
                        UnifiedFunctionCall(StringField(f, "name").s,
                                            StringField(f, "arguments").s))
OpenAIDecodeMessage(v) ==
    LET o == AsObj(v)
        tcs == ArrayOf(o, "tool_calls")
    IN  UnifiedMessage(StringField(o, "role").s, StringField(o, "content").s,
                       [j \in DOMAIN tcs |-> OpenAIDecodeToolCall(tcs[j])],
                       StringField(o, "tool_call_id").s, StringField(o, "name").s)

\* ToolChoice is kept only when it is a string or an object
OpenAIToolChoice(o) ==
    IF Field(o, "tool_choice").k \in {"str", "obj"} THEN AnyOf(o, "tool_choice")
    ELSE None

OpenAIClientChatToUnified(body) ==
    IF ~ParsesAsJSON(body) \/ ~IsObjLike(body.doc) THEN Err
    ELSE LET o == AsObj(body.doc)
             msgs == ArrayOf(o, "messages")
             tools == ArrayOf(o, "tools")
         IN  IF ~(/\ StringField(o, "model").ok
                  /\ ArrayOK(o, "messages")
                  /\ \A i \in DOMAIN msgs : OpenAIMessageOK(msgs[i])
                  /\ ArrayOK(o, "tools")
                  /\ \A i \in DOMAIN tools : UnifiedToolOK(tools[i])
                  /\ BoolOK(o, "stream"))
             THEN Err
             ELSE Ok(UnifiedChatRequest(
                        StringField(o, "model").s,
                        [i \in DOMAIN msgs |-> OpenAIDecodeMessage(msgs[i])],
                        BoolOf(o, "stream"),
                        [i \in DOMAIN tools |-> DecodeUnifiedTool(tools[i])],
                        OpenAIToolChoice(o)))

\* fault variant: arguments that do not parse are sent as they are
OpenAIArguments_Raw(args) ==
    IF args = EmptyText THEN JsonText(FALSE, JObj(<<>>)) ELSE args
\* the arguments string sent to an OpenAI-style backend
OpenAIArguments(args) ==
    IF args = EmptyText THEN JsonText(FALSE, JObj(<<>>))
    ELSE IF ParsesAsJSON(args) THEN args
    ELSE Marshal(JStr(args))
OpenAIEncodeToolCall(tc) ==
    MapToObj(("id" :> JStr(tc.ID)) @@ ("type" :> JStr(tc.Type))
          @@ ("function" :> MapToObj(("name" :> JStr(tc.Function.Name))
                 @@ ("arguments" :> JStr(OpenAIArguments(tc.Function.Arguments))))))
OpenAIEncodeMessage(msg) ==
    MapToObj(
        (IF Len(msg.ToolCalls) > 0
         THEN "tool_calls" :> JArr([j \in DOMAIN msg.ToolCalls |->
                                      OpenAIEncodeToolCall(msg.ToolCalls[j])])
         ELSE <<>>)
     @@ (IF msg.Name # EmptyText THEN "name" :> JStr(msg.Name) ELSE <<>>)
     @@ (IF msg.ToolCallID # EmptyText THEN "tool_call_id" :> JStr(msg.ToolCallID)
         ELSE <<>>)
     @@ ("role" :> JStr(msg.Role)) @@ ("content" :> JStr(msg.Content)))
\* Marshal of a UnifiedTool: exported field names, no json tags
MarshalUnifiedTool(tool) ==
    MapToObj(("Type" :> JStr(tool.Type))
          @@ ("Function" :> MapToObj(
                 ("Name" :> JStr(tool.Function.Name))
              @@ ("Description" :> JStr(tool.Function.Description))
              @@ ("Parameters" :> IF tool.Function.Parameters = None THEN JNull
                                  ELSE tool.Function.Parameters))))

\* the body of the request built by OpenAIAdapter.UnifiedChatToBackend
OpenAIUnifiedChatToBackend(u) ==
    Ok(Marshal(MapToObj(
        (IF u.ToolChoice # None THEN "tool_choice" :> u.ToolChoice ELSE <<>>)
     @@ (IF Len(u.Tools) > 0
         THEN "tools" :> JArr([i \in DOMAIN u.Tools |-> MarshalUnifiedTool(u.Tools[i])])
         ELSE <<>>)
     @@ ("model" :> JStr(u.Model))
     @@ ("messages" :> JArr([i \in DOMAIN u.Messages |->
                               OpenAIEncodeMessage(u.Messages[i])]))
     @@ ("stream" :> JBool(u.Stream)))))

(***************************************************************************)
(* Anthropic-style adapter: requests                                       *)
(***************************************************************************)
IsBlock(b, type) == b.k = "obj" /\ Has(b, "type") /\ Get(b, "type") = JStr(Plain(type))
IsTextBlock(b) == IsBlock(b, "text") /\ Has(b, "text")
IsToolUseBlock(b) ==
    IsBlock(b, "tool_use") /\ Has(b, "id") /\ Has(b, "name") /\ Has(b, "input")
IsToolResultBlock(b) ==
    IsBlock(b, "tool_result") /\ Has(b, "tool_use_id") /\ Has(b, "content")

\* textContent += fmt.Sprintf("%v", text) over the text blocks, in order
RECURSIVE AnthropicTextOf(_)
AnthropicTextOf(blocks) ==
    IF blocks = <<>> THEN EmptyText
    ELSE Concat(IF IsTextBlock(Head(blocks)) THEN SprintfV(Get(Head(blocks), "text"))
                ELSE EmptyText,
                AnthropicTextOf(Tail(blocks)))
AnthropicToolCallOf(b) ==
    UnifiedToolCall(SprintfV(Get(b, "id")), Plain("function"),
                    UnifiedFunctionCall(SprintfV(Get(b, "name")), Marshal(Get(b, "input"))))

\* one element of "messages": Role string, Content interface{}
AnthropicDecodeMessage(v) ==
    LET o == AsObj(v)
        role == StringField(o, "role").s
        c == IF Has(o, "content") THEN ToInterface(Get(o, "content")) ELSE JNull
    IN  IF c.k = "str" THEN UnifiedMessage(role, c.s, <<>>, EmptyText, EmptyText)
        ELSE IF c.k = "arr" THEN
            LET uses == SelectSeq(c.a, IsToolUseBlock)
                results == SelectSeq(c.a, IsToolResultBlock)
                tcs == [j \in DOMAIN uses |-> AnthropicToolCallOf(uses[j])]
            IN  IF results = <<>>
                THEN UnifiedMessage(role, AnthropicTextOf(c.a), tcs, EmptyText, EmptyText)
                ELSE LET r == results[Len(results)]
                     IN  UnifiedMessage(role, Marshal(Get(r, "content")), tcs,
                                        SprintfV(Get(r, "tool_use_id")), EmptyText)
        ELSE UnifiedMessage(role, EmptyText, <<>>, EmptyText, EmptyText)
AnthropicMessageOK(v) == IsObjLike(v) /\ StringField(AsObj(v), "role").ok
AnthropicToolOK(v) ==
    /\ IsObjLike(v)
    /\ StringField(AsObj(v), "name").ok /\ StringField(AsObj(v), "description").ok
    /\ ObjOK(AsObj(v), "input_schema")
AnthropicDecodeTool(v) ==
    UnifiedTool(Plain("function"),
                UnifiedFunction(StringField(AsObj(v), "name").s,
                                StringField(AsObj(v), "description").s,
                                MapOf(AsObj(v), "input_schema")))

AnthropicClientChatToUnified(body) ==
    IF ~ParsesAsJSON(body) \/ ~IsObjLike(body.doc) THEN Err
    ELSE LET o == AsObj(body.doc)
             msgs == ArrayOf(o, "messages")
             tools == ArrayOf(o, "tools")
         IN  IF ~(/\ StringField(o, "model").ok
                  /\ IntOK(o, "max_tokens")
                  /\ ArrayOK(o, "messages")
                  /\ \A i \in DOMAIN msgs : AnthropicMessageOK(msgs[i])
                  /\ ArrayOK(o, "tools")
                  /\ \A i \in DOMAIN tools : AnthropicToolOK(tools[i]))
             THEN Err
             ELSE Ok(UnifiedChatRequest(
                        StringField(o, "model").s,
                        [i \in DOMAIN msgs |-> AnthropicDecodeMessage(msgs[i])],
                        FALSE,
                        [i \in DOMAIN tools |-> AnthropicDecodeTool(tools[i])],
                        AnyOf(o, "tool_choice")))

\* json.RawMessage(s) inside a marshalled value: Marshal fails unless s is
\* valid JSON, and then writes s compacted, tokens unchanged
RawMessageOK(s) == ParsesAsJSON(s)
RawMessage(s) == s.doc

AnthropicMaxTokens == 4096

AnthropicMessageMarshals(msg) ==
    IF Len(msg.ToolCalls) > 0 THEN RawMessageOK(msg.ToolCalls[1].Function.Arguments)
    ELSE IF msg.ToolCallID # EmptyText /\ msg.Content # EmptyText
    THEN RawMessageOK(msg.Content)
    ELSE TRUE
AnthropicEncodeMessage_KeepsText(msg) ==
    MapToObj(
        (IF Len(msg.ToolCalls) > 0
         THEN "content" :> JArr(
                (IF msg.Content # EmptyText
                 THEN <<MapToObj(("type" :> JStr(Plain("text")))
                              @@ ("text" :> JStr(msg.Content)))>>
                 ELSE <<>>)
                \o <<MapToObj(
                    ("type" :> JStr(Plain("tool_use")))
                 @@ ("id" :> JStr(msg.ToolCalls[1].ID))
                 @@ ("name" :> JStr(msg.ToolCalls[1].Function.Name))
                 @@ ("input" :> RawMessage(msg.ToolCalls[1].Function.Arguments)))>>)
         ELSE IF msg.ToolCallID # EmptyText /\ msg.Content # EmptyText
         THEN "content" :> JArr(<<MapToObj(
                    ("type" :> JStr(Plain("tool_result")))
                 @@ ("tool_use_id" :> JStr(msg.ToolCallID))
                 @@ ("content" :> RawMessage(msg.Content)))>>)
         ELSE IF msg.Content # EmptyText THEN "content" :> JStr(msg.Content)
         ELSE <<>>)
     @@ ("role" :> JStr(msg.Role)))
AnthropicEncodeMessage(msg) ==
    MapToObj(
        (IF Len(msg.ToolCalls) > 0
         THEN "content" :> JArr(<<MapToObj(
                    ("type" :> JStr(Plain("tool_use")))
                 @@ ("id" :> JStr(msg.ToolCalls[1].ID))
                 @@ ("name" :> JStr(msg.ToolCalls[1].Function.Name))
                 @@ ("input" :> RawMessage(msg.ToolCalls[1].Function.Arguments)))>>)
         ELSE IF msg.ToolCallID # EmptyText /\ msg.Content # EmptyText
         THEN "content" :> JArr(<<MapToObj(
                    ("type" :> JStr(Plain("tool_result")))
                 @@ ("tool_use_id" :> JStr(msg.ToolCallID))
                 @@ ("content" :> RawMessage(msg.Content)))>>)
         ELSE IF msg.Content # EmptyText THEN "content" :> JStr(msg.Content)
         ELSE <<>>)
     @@ ("role" :> JStr(msg.Role)))
AnthropicEncodeTool_Nested(tool) ==
    MapToObj(("type" :> JStr(tool.Type))
          @@ ("function" :> MapToObj(
                 ("name" :> JStr(tool.Function.Name))
              @@ ("description" :> JStr(tool.Function.Description))
              @@ ("parameters" :> IF tool.Function.Parameters = None THEN JNull
                                  ELSE tool.Function.Parameters))))
AnthropicEncodeTool(tool) ==
    MapToObj(("name" :> JStr(tool.Function.Name))
          @@ ("description" :> JStr(tool.Function.Description))
          @@ ("input_schema" :> IF tool.Function.Parameters = None THEN JNull
                                ELSE tool.Function.Parameters))

\* the body of the request built by AnthropicAdapter.UnifiedChatToBackend
AnthropicUnifiedChatToBackend(u) ==
    IF \E i \in DOMAIN u.Messages : ~AnthropicMessageMarshals(u.Messages[i]) THEN Err
    ELSE Ok(Marshal(MapToObj(
            (IF Len(u.Tools) > 0
             THEN "tools" :> JArr([i \in DOMAIN u.Tools |-> AnthropicEncodeTool(u.Tools[i])])
             ELSE <<>>)
         @@ ("model" :> JStr(u.Model))
         @@ ("messages" :> JArr([i \in DOMAIN u.Messages |->
                                   AnthropicEncodeMessage(u.Messages[i])]))
         @@ ("max_tokens" :> JInt(AnthropicMaxTokens)))))

(***************************************************************************)
(* Responses                                                               *)
(***************************************************************************)
UnifiedUsage(in, out) == [InputTokens |-> in, OutputTokens |-> out]
UnifiedChatResponse(id, model, role, content, toolCalls, stopReason, usage) ==
    [ID |-> id, Model |-> model, Role |-> role, Content |-> content,
     ToolCalls |-> toolCalls, StopReason |-> stopReason, Usage |-> usage]

IntOf(o, key) == IF Field(o, key).k = "num" THEN Field(o, key) ELSE JInt(0)
AddInt(a, b) ==
    JNum(a.hi + b.hi + ((a.lo + b.lo) \div Base), (a.lo + b.lo) % Base)

OpenAIChoiceOK(v) ==
    /\ IsObjLike(v)
    /\ IntOK(AsObj(v), "index") /\ StringField(AsObj(v), "finish_reason").ok
    /\ ObjOK(AsObj(v), "message")
    /\ LET m == ObjOf(AsObj(v), "message")
       IN  /\ StringField(m, "role").ok /\ StringField(m, "content").ok
           /\ ArrayOK(m, "tool_calls")
           /\ \A j \in DOMAIN ArrayOf(m, "tool_calls") :
                  OpenAIToolCallOK(ArrayOf(m, "tool_calls")[j])
UsageOK(o, names) ==
    ObjOK(o, "usage") /\ \A n \in names : IntOK(ObjOf(o, "usage"), n)

\* fault variant: the last choice is read
OpenAIBackendChatToUnified_LastChoice(body) ==
    IF ~ParsesAsJSON(body) \/ ~IsObjLike(body.doc) THEN Err
    ELSE LET o == AsObj(body.doc)
             choices == ArrayOf(o, "choices")
             usage == ObjOf(o, "usage")
         IN  IF ~(/\ StringField(o, "id").ok /\ StringField(o, "object").ok
                  /\ IntOK(o, "created") /\ StringField(o, "model").ok
                  /\ ArrayOK(o, "choices")
                  /\ \A i \in DOMAIN choices : OpenAIChoiceOK(choices[i])
                  /\ UsageOK(o, {"prompt_tokens", "completion_tokens", "total_tokens"}))
             THEN Err
             ELSE LET m == IF Len(choices) > 0 THEN ObjOf(AsObj(choices[Len(choices)]), "message")
                           ELSE JObj(<<>>)
                      tcs == ArrayOf(m, "tool_calls")
                  IN  Ok(UnifiedChatResponse(
                          StringField(o, "id").s, StringField(o, "model").s,
                          StringField(m, "role").s, StringField(m, "content").s,
                          [j \in DOMAIN tcs |-> OpenAIDecodeToolCall(tcs[j])],
                          IF Len(choices) > 0
                          THEN StringField(AsObj(choices[Len(choices)]), "finish_reason").s
                          ELSE EmptyText,
                          UnifiedUsage(IntOf(usage, "prompt_tokens"),
                                       IntOf(usage, "completion_tokens"))))
OpenAIBackendChatToUnified(body) ==
    IF ~ParsesAsJSON(body) \/ ~IsObjLike(body.doc) THEN Err
    ELSE LET o == AsObj(body.doc)
             choices == ArrayOf(o, "choices")
             usage == ObjOf(o, "usage")
         IN  IF ~(/\ StringField(o, "id").ok /\ StringField(o, "object").ok
                  /\ IntOK(o, "created") /\ StringField(o, "model").ok
                  /\ ArrayOK(o, "choices")
                  /\ \A i \in DOMAIN choices : OpenAIChoiceOK(choices[i])
                  /\ UsageOK(o, {"prompt_tokens", "completion_tokens", "total_tokens"}))
             THEN Err
             ELSE LET m == IF Len(choices) > 0 THEN ObjOf(AsObj(choices[1]), "message")
                           ELSE JObj(<<>>)
                      tcs == ArrayOf(m, "tool_calls")
                  IN  Ok(UnifiedChatResponse(
                          StringField(o, "id").s, StringField(o, "model").s,
                          StringField(m, "role").s, StringField(m, "content").s,
                          [j \in DOMAIN tcs |-> OpenAIDecodeToolCall(tcs[j])],
                          IF Len(choices) > 0
                          THEN StringField(AsObj(choices[1]), "finish_reason").s
                          ELSE EmptyText,
                          UnifiedUsage(IntOf(usage, "prompt_tokens"),
                                       IntOf(usage, "completion_tokens"))))

AnthropicContentOK(v) ==
    /\ IsObjLike(v)
    /\ StringField(AsObj(v), "type").ok /\ StringField(AsObj(v), "text").ok
\* fault variant: the text of every block is taken, whatever its type
RECURSIVE AnthropicResponseText_AllBlocks(_)
AnthropicResponseText_AllBlocks(blocks) ==
    IF blocks = <<>> THEN EmptyText
    ELSE Concat(StringField(AsObj(Head(blocks)), "text").s,
                AnthropicResponseText_AllBlocks(Tail(blocks)))
\* unifiedResp.Content += block.Text over the blocks of type "text"
RECURSIVE AnthropicResponseText(_)
AnthropicResponseText(blocks) ==
    IF blocks = <<>> THEN EmptyText
    ELSE Concat(IF StringField(AsObj(Head(blocks)), "type").s = Plain("text")
                THEN StringField(AsObj(Head(blocks)), "text").s ELSE EmptyText,
                AnthropicResponseText(Tail(blocks)))

AnthropicBackendChatToUnified(body) ==
    IF ~ParsesAsJSON(body) \/ ~IsObjLike(body.doc) THEN Err
    ELSE LET o == AsObj(body.doc)
             content == ArrayOf(o, "content")
             usage == ObjOf(o, "usage")
         IN  IF ~(/\ StringField(o, "id").ok /\ StringField(o, "type").ok
                  /\ StringField(o, "role").ok /\ StringField(o, "model").ok
                  /\ StringField(o, "stop_reason").ok
                  /\ ArrayOK(o, "content")
                  /\ \A i \in DOMAIN content : AnthropicContentOK(content[i])
                  /\ UsageOK(o, {"input_tokens", "output_tokens"}))
             THEN Err
             ELSE Ok(UnifiedChatResponse(
                        StringField(o, "id").s, StringField(o, "model").s,
                        StringField(o, "role").s, AnthropicResponseText(content),
                        <<>>, StringField(o, "stop_reason").s,
                        UnifiedUsage(IntOf(usage, "input_tokens"),
                                     IntOf(usage, "output_tokens"))))

JSONHeader == HeaderSet(NoHeader, "Content-Type", <<"application/json">>)

OpenAIUnifiedChatToClient(u) ==
    [status |-> StatusOK,
     header |-> JSONHeader,
     body   |-> Marshal(MapToObj(
            ("id" :> JStr(u.ID)) @@ ("object" :> JStr(Plain("chat.completion")))
         @@ ("created" :> JInt(0)) @@ ("model" :> JStr(u.Model))
         @@ ("choices" :> JArr(<<MapToObj(
                ("index" :> JInt(0))
             @@ ("message" :> MapToObj(
                    (IF Len(u.ToolCalls) > 0
                     THEN "tool_calls" :> JArr([i \in DOMAIN u.ToolCalls |->
                            MapToObj(("id" :> JStr(u.ToolCalls[i].ID))
                                  @@ ("type" :> JStr(u.ToolCalls[i].Type))
                                  @@ ("function" :> MapToObj(
                                        ("name" :> JStr(u.ToolCalls[i].Function.Name))
                                     @@ ("arguments" :>
                                          JStr(u.ToolCalls[i].Function.Arguments)))))])
                     ELSE <<>>)
                 @@ ("role" :> JStr(u.Role)) @@ ("content" :> JStr(u.Content))))
             @@ ("finish_reason" :> JStr(u.StopReason)))>>))
         @@ ("usage" :> MapToObj(
                ("prompt_tokens" :> u.Usage.InputTokens)
             @@ ("completion_tokens" :> u.Usage.OutputTokens)
             @@ ("total_tokens" :> AddInt(u.Usage.InputTokens, u.Usage.OutputTokens))))))]

\* a tool call as a tool_use block: the arguments parsed back to a value,
\* or kept as a string when they do not parse
AnthropicToolUseOf(tc) ==
    MapToObj(("type" :> JStr(Plain("tool_use"))) @@ ("id" :> JStr(tc.ID))
          @@ ("name" :> JStr(tc.Function.Name))
          @@ ("input" :> IF ParsesAsJSON(tc.Function.Arguments)
                         THEN ToInterface(tc.Function.Arguments.doc)
                         ELSE JStr(tc.Function.Arguments)))
AnthropicUnifiedChatToClient(u) ==
    LET text == IF u.Content # EmptyText
                THEN <<MapToObj(("type" :> JStr(Plain("text"))) @@ ("text" :> JStr(u.Content)))>>
                ELSE <<>>
        blocks == text \o [i \in DOMAIN u.ToolCalls |-> AnthropicToolUseOf(u.ToolCalls[i])]
    IN  [status |-> StatusOK,
         header |-> JSONHeader,
         body   |-> Marshal(MapToObj(
                ("id" :> JStr(u.ID)) @@ ("type" :> JStr(Plain("message")))
             @@ ("role" :> JStr(u.Role))
             @@ ("content" :> IF blocks = <<>> THEN JNull ELSE JArr(blocks))
             @@ ("model" :> JStr(u.Model)) @@ ("stop_reason" :> JStr(u.StopReason))
             @@ ("usage" :> MapToObj(("input_tokens" :> u.Usage.InputTokens)
                                  @@ ("output_tokens" :> u.Usage.OutputTokens)))))]

(***************************************************************************)
(* Embeddings                                                              *)
(***************************************************************************)
UnifiedEmbeddingRequest(input, model) == [Input |-> input, Model |-> model]
UnifiedEmbeddingResponse(embeddings, model) == [Embeddings |-> embeddings, Model |-> model]

StringsOK(a) == \A i \in DOMAIN a : a[i].k \in {"str", "null"}
OpenAIClientEmbeddingToUnified(body) ==
    IF ~ParsesAsJSON(body) \/ ~IsObjLike(body.doc) THEN Err
    ELSE LET o == AsObj(body.doc)
             input == ArrayOf(o, "input")
         IN  IF ~(ArrayOK(o, "input") /\ StringsOK(input) /\ StringField(o, "model").ok)
             THEN Err
             ELSE Ok(UnifiedEmbeddingRequest(
                        [i \in DOMAIN input |->
                            IF input[i].k = "str" THEN input[i].s ELSE EmptyText],
                        StringField(o, "model").s))
OpenAIUnifiedEmbeddingToBackend(u) ==
    Ok(Marshal(MapToObj(
        ("input" :> JArr([i \in DOMAIN u.Input |-> JStr(u.Input[i])]))
     @@ ("model" :> JStr(u.Model)))))

EmbeddingDatumOK(v) ==
    /\ IsObjLike(v)
    /\ StringField(AsObj(v), "object").ok /\ IntOK(AsObj(v), "index")
    /\ ArrayOK(AsObj(v), "embedding")
    /\ \A j \in DOMAIN ArrayOf(AsObj(v), "embedding") :
           ArrayOf(AsObj(v), "embedding")[j].k \in {"num", "null"}
\* embeddings[i] = data.Embedding, by position in "data"
OpenAIBackendEmbeddingToUnified(body) ==
    IF ~ParsesAsJSON(body) \/ ~IsObjLike(body.doc) THEN Err
    ELSE LET o == AsObj(body.doc)
             data == ArrayOf(o, "data")
         IN  IF ~(/\ StringField(o, "object").ok /\ StringField(o, "model").ok
                  /\ ArrayOK(o, "data")
                  /\ \A i \in DOMAIN data : EmbeddingDatumOK(data[i])
                  /\ UsageOK(o, {"prompt_tokens", "total_tokens"}))
             THEN Err
             ELSE Ok(UnifiedEmbeddingResponse(
                        [i \in DOMAIN data |-> ArrayOf(AsObj(data[i]), "embedding")],
                        StringField(o, "model").s))
OpenAIUnifiedEmbeddingToClient(u) ==
    [status |-> StatusOK,
     header |-> JSONHeader,
     body   |-> Marshal(MapToObj(
            ("object" :> JStr(Plain("list")))
         @@ ("data" :> JArr([i \in DOMAIN u.Embeddings |-> MapToObj(
                    ("object" :> JStr(Plain("embedding")))
                 @@ ("index" :> JInt(i - 1))
                 @@ ("embedding" :> JArr(u.Embeddings[i])))]))
         @@ ("model" :> JStr(u.Model))
         @@ ("usage" :> MapToObj(("prompt_tokens" :> JInt(Len(u.Embeddings)))
                              @@ ("total_tokens" :> JInt(Len(u.Embeddings)))))))]

\* fmt.Errorf("Anthropic does not support embedding requests")
AnthropicClientEmbeddingToUnified(body) == Err
\* fault variant: a best-effort request in the OpenAI shape
AnthropicUnifiedEmbeddingToBackend_BestEffort(u) == OpenAIUnifiedEmbeddingToBackend(u)
AnthropicUnifiedEmbeddingToBackend(u) == Err
\* fault variant: the backend answer is decoded as the OpenAI-style adapter does
AnthropicBackendEmbeddingToUnified_Decodes(body) ==
    IF body = None THEN Err ELSE OpenAIBackendEmbeddingToUnified(body)
AnthropicBackendEmbeddingToUnified(body) == Err
\* returns the error without touching the ResponseWriter w
AnthropicUnifiedEmbeddingToClient(u, w) == [err |-> TRUE, w |-> w]

(***************************************************************************)
(* Adapter interface dispatch                                              *)
(***************************************************************************)
ClientChatToUnified(adapter, body) ==
    IF adapter = "openai" THEN OpenAIClientChatToUnified(body)
    ELSE AnthropicClientChatToUnified(body)
UnifiedChatToBackend(adapter, u) ==
    IF adapter = "openai" THEN OpenAIUnifiedChatToBackend(u)
    ELSE AnthropicUnifiedChatToBackend(u)
BackendChatToUnified(adapter, body) ==
    IF adapter = "openai" THEN OpenAIBackendChatToUnified(body)
    ELSE AnthropicBackendChatToUnified(body)
UnifiedChatToClient(adapter, u) ==
    IF adapter = "openai" THEN OpenAIUnifiedChatToClient(u)
    ELSE AnthropicUnifiedChatToClient(u)
ClientEmbeddingToUnified(adapter, body) ==
    IF adapter = "openai" THEN OpenAIClientEmbeddingToUnified(body)
    ELSE AnthropicClientEmbeddingToUnified(body)
UnifiedEmbeddingToBackend(adapter, u) ==
    IF adapter = "openai" THEN OpenAIUnifiedEmbeddingToBackend(u)
    ELSE AnthropicUnifiedEmbeddingToBackend(u)
BackendEmbeddingToUnified(adapter, body) ==
    IF adapter = "openai" THEN OpenAIBackendEmbeddingToUnified(body)
    ELSE AnthropicBackendEmbeddingToUnified(body)

(***************************************************************************)
(* Handler state.  One request is handled from its arrival to the response *)
(* written to the client; the handler blocks once, in http.Client.Do.      *)
(***************************************************************************)
NewRequest(entry, path, header, body) ==
    [pc |-> "received", entry |-> entry, path |-> path, method |-> "POST",
     reqHeader |-> header,
     sent |-> body,             \* the body as the client sent it
     rBody |-> body,            \* r.Body
     bodyReads |-> 0,           \* reads of r.Body so far
     seen |-> None,             \* the bytes the workflow read from r.Body
     cancelled |-> FALSE,       \* r.Context() is done: the client went away
     lookedUp |-> FALSE,        \* findModelConfig was called
     clientType |-> "", alias |-> None, cfg |-> None,
     clientAdapter |-> "", providerAdapter |-> "",
     workflow |-> "",           \* the workflow function entered
     ops |-> <<>>,              \* adapter operations invoked, in order
     out |-> None,              \* the outbound backend request
     calls |-> 0,               \* backend calls made (client.Do)
     bresp |-> None,            \* what client.Do returned
     resp |-> None]             \* the response written to the client

Idle == [NewRequest("", "", NoHeader, Stream(EmptyText)) EXCEPT !.pc = "idle"]

Respond(hh, resp) == [hh EXCEPT !.pc = "done", !.resp = resp]
\* a run-time panic in the handler goroutine: nothing is written
Panic(hh) == [hh EXCEPT !.pc = "panicked"]
\* client.Do(req): the handler blocks until the backend answers
Do(hh, req) == [hh EXCEPT !.pc = "calling", !.out = req, !.calls = @ + 1]
Invoke(hh, op) == [hh EXCEPT !.ops = Append(@, op)]

Bearer(apiKey) == <<"Bearer ", apiKey>>
\* http.NewRequest: the request is bound to context.Background(), which is
\* never done
OutboundRequest(method, url, header, body) ==
    [method |-> method, url |-> url, header |-> header, body |-> body,
     ctx |-> "Background"]

(***************************************************************************)
(* Router                                                                  *)
(***************************************************************************)
\* fault variant: a model member of the wrong JSON type is skipped
UnmarshalModel_Lenient(body) ==
    IF ~ParsesAsJSON(body) \/ ~IsObjLike(body.doc) THEN [err |-> TRUE, model |-> EmptyText]
    ELSE [err |-> FALSE, model |-> StringField(AsObj(body.doc), "model").s]
\* struct{ Model string `json:"model"` } out of the body bytes
UnmarshalModel(body) ==
    IF ~ParsesAsJSON(body) \/ ~IsObjLike(body.doc) THEN [err |-> TRUE, model |-> EmptyText]
    ELSE [err |-> ~StringField(AsObj(body.doc), "model").ok,
          model |-> StringField(AsObj(body.doc), "model").s]

\* fault variant: the bytes read are not put back
extractModelFromRequest_Consumes(hh) ==
    LET rd == ReadAll(hh.rBody)
        h1 == [hh EXCEPT !.bodyReads = @ + 1, !.rBody = rd.stream]
    IN  IF rd.err THEN [err |-> TRUE, model |-> EmptyText, h |-> h1]
        ELSE [err |-> UnmarshalModel(rd.bytes).err,
              model |-> UnmarshalModel(rd.bytes).model,
              h |-> h1]
\* reads r.Body, puts the bytes back, returns the model name
extractModelFromRequest(hh) ==
    LET rd == ReadAll(hh.rBody)
        h1 == [hh EXCEPT !.bodyReads = @ + 1, !.rBody = rd.stream]
    IN  IF rd.err THEN [err |-> TRUE, model |-> EmptyText, h |-> h1]
        ELSE [err |-> UnmarshalModel(rd.bytes).err,
              model |-> UnmarshalModel(rd.bytes).model,
              h |-> [h1 EXCEPT !.rBody = Stream(rd.bytes)]]

\* fault variant: an unknown alias falls back to some configured model
findModelConfig_Fallback(models, modelAlias) ==
    IF modelAlias.x = "plain" /\ modelAlias.p \in DOMAIN models
    THEN [ok |-> TRUE, cfg |-> models[modelAlias.p]]
    ELSE [ok |-> TRUE, cfg |-> models[CHOOSE a \in DOMAIN models : TRUE]]
findModelConfig(models, modelAlias) ==
    IF modelAlias.x = "plain" /\ modelAlias.p \in DOMAIN models
    THEN [ok |-> TRUE, cfg |-> models[modelAlias.p]]
    ELSE [ok |-> FALSE, cfg |-> None]

\* fault variant: any other path is taken as OpenAI-style
ClientTypeOfPath_Default(path) ==
    IF path = "/v1/messages" THEN "anthropic" ELSE "openai"
\* step 1 of HandleChatCompletions
ClientTypeOfPath(path) ==
    IF path = "/v1/chat/completions" THEN "openai"
    ELSE IF path = "/v1/messages" THEN "anthropic"
    ELSE ""

\* fault variant: the target's type is not looked at
SelectWorkflow_IgnoresTarget(clientAdapterType, providerType) ==
    IF clientAdapterType = "openai" THEN "Passthrough" ELSE "Translation"
\* step 4: compare client and provider types
SelectWorkflow(clientAdapterType, providerType) ==
    IF clientAdapterType = providerType THEN "Passthrough" ELSE "Translation"

(***************************************************************************)
(* Passthrough workflow                                                    *)
(***************************************************************************)
\* the outbound body: the model field rewritten when the target model
\* differs from the alias
RewriteModel(body, modelConfig) ==
    IF modelConfig.Target.Model # modelConfig.Alias
    THEN IF ~ParsesAsJSON(body) \/ ~IsObjLike(body.doc) THEN [res |-> "badjson"]
         ELSE IF body.doc.k = "null" THEN [res |-> "nilmap"]
         ELSE [res |-> "ok",
               body |-> Marshal(MapToObj(
                   ("model" :> JStr(Plain(modelConfig.Target.Model)))
                @@ ObjToMap(ToInterface(body.doc))))]
    ELSE [res |-> "ok", body |-> body]

\* backendReq.Header: the clone of r.Header, Authorization set when a key
\* is configured
PassthroughHeader_Adds(header, modelConfig) ==
    IF modelConfig.Target.APIKey # ""
    THEN HeaderAdd(HeaderClone(header), "Authorization", Bearer(modelConfig.Target.APIKey))
    ELSE HeaderClone(header)
PassthroughHeader(header, modelConfig) ==
    IF modelConfig.Target.APIKey # ""
    THEN HeaderSet(HeaderClone(header), "Authorization", Bearer(modelConfig.Target.APIKey))
    ELSE HeaderClone(header)

HandlePassthrough(hh, providerURL, modelConfig) ==
    LET rd == ReadAll(hh.rBody)
        h1 == [hh EXCEPT !.workflow = "Passthrough", !.cfg = modelConfig,
                         !.bodyReads = @ + 1, !.rBody = rd.stream,
                         !.seen = rd.bytes]
        rw == RewriteModel(rd.bytes, modelConfig)
    IN  IF rd.err
        THEN Respond(h1, HttpError("failed to read request body", StatusInternalServerError))
        ELSE IF rw.res = "badjson"
        THEN Respond(h1, HttpError("failed to parse request JSON", StatusBadRequest))
        ELSE IF rw.res = "nilmap" THEN Panic(h1)
        ELSE Do(h1, OutboundRequest(hh.method, providerURL,
                                    PassthroughHeader(hh.reqHeader, modelConfig), rw.body))

\* for key, values := range backendResp.Header { w.Header().Add(key, value) }
RECURSIVE AddValues(_, _, _)
AddValues(w, name, values) ==
    IF values = <<>> THEN w
    ELSE AddValues(HeaderAdd(w, name, Head(values)), name, Tail(values))
RECURSIVE CopyHeader(_, _, _)
CopyHeader(w, src, names) ==
    IF names = {} THEN w
    ELSE LET n == CHOOSE n \in names : TRUE
         IN  CopyHeader(AddValues(w, n, src[n]), src, names \ {n})

\* fault variant: WriteHeader is left out, the status defaults to 200
PassthroughResponse_Status200(backendResp) ==
    [status |-> StatusOK,
     header |-> CopyHeader(NoHeader, backendResp.header, DOMAIN backendResp.header),
     body   |-> backendResp.body]
\* the client response written from the backend response
PassthroughResponse(backendResp) ==
    [status |-> backendResp.status,
     header |-> CopyHeader(NoHeader, backendResp.header, DOMAIN backendResp.header),
     body   |-> backendResp.body]

\* client.Do returned an error
PassthroughTransportError(hh) ==
    Respond(hh, HttpError("failed to make request to backend", StatusBadGateway))

PassthroughAfterDo(hh) ==
    IF hh.bresp.transportError THEN PassthroughTransportError(hh)
    ELSE Respond(hh, PassthroughResponse(hh.bresp))

(***************************************************************************)
(* Translation workflows                                                   *)
(***************************************************************************)
\* fault variant: the client's model name is kept
RewriteUnifiedModel_Skip(unifiedReq, modelConfig) == unifiedReq
\* 1.5: unifiedReq.Model = modelConfig.Target.Model
RewriteUnifiedModel(unifiedReq, modelConfig) ==
    [unifiedReq EXCEPT !.Model = Plain(modelConfig.Target.Model)]

\* 2.5: the adapters set Content-Type; the key is added when configured
TranslationHeader(modelConfig) ==
    IF modelConfig.Target.APIKey # ""
    THEN HeaderSet(JSONHeader, "Authorization", Bearer(modelConfig.Target.APIKey))
    ELSE JSONHeader

\* json.NewDecoder(r.Body).Decode: the bytes the decoder sees
DecoderInput(stream) == IF ReadAll(stream).err THEN Plain("") ELSE ReadAll(stream).bytes

HandleTranslation(hh, clientAdapter, providerAdapter, providerURL, modelConfig) ==
    LET h1 == Invoke([hh EXCEPT !.workflow = "Translation", !.cfg = modelConfig,
                                !.clientAdapter = clientAdapter,
                                !.providerAdapter = providerAdapter,
                                !.bodyReads = @ + 1,
                                !.rBody = ReadAll(hh.rBody).stream,
                                !.seen = DecoderInput(hh.rBody)],
                     "ClientChatToUnified")
        dec == ClientChatToUnified(clientAdapter, DecoderInput(hh.rBody))
        enc == UnifiedChatToBackend(providerAdapter,
                                    RewriteUnifiedModel(dec.val, modelConfig))
    IN  IF dec.err
        THEN Respond(h1, HttpError("failed to translate client request to unified format",
                                   StatusInternalServerError))
        ELSE IF providerAdapter = "nil" THEN Panic(h1)
        ELSE IF enc.err
        THEN Respond(Invoke(h1, "UnifiedChatToBackend"),
                     HttpError("failed to translate unified request to provider format",
                               StatusInternalServerError))
        ELSE Do(Invoke(h1, "UnifiedChatToBackend"),
                OutboundRequest("POST", providerURL, TranslationHeader(modelConfig),
                                enc.val))

GenericBrokerError ==
    MapToObj("error" :> MapToObj(
        ("message" :> JStr(Plain("An error occurred at the backend.")))
     @@ ("type" :> JStr(Plain("broker_error")))))

\* part_005, step 3: a backend status >= 400 is forwarded with the error
\* body parsed and marshalled again, or the generic body
BackendErrorResponse(backendResp) ==
    [status |-> backendResp.status,
     header |-> JSONHeader,
     body   |-> IF ParsesAsJSON(backendResp.body) /\ IsObjLike(backendResp.body.doc)
                THEN Marshal(ToInterface(backendResp.body.doc))
                ELSE Marshal(GenericBrokerError)]

\* whether the source built checks the backend status before decoding:
\* part_005 does (lines 52-84), internal/broker/workflows/translate.go
\* goes from client.Do straight to BackendChatToUnified
ChecksBackendStatus(src) == src = "part_005"

\* fault variant: the failed call is made again
TranslationTransportError_Retry(hh) == Do(hh, hh.out)
TranslationTransportError(hh) ==
    Respond(hh, HttpError("failed to make request to provider", StatusBadGateway))

HandleTranslationAfterDo(hh, src) ==
    LET dec == BackendChatToUnified(hh.providerAdapter, hh.bresp.body)
    IN  IF hh.bresp.transportError THEN TranslationTransportError(hh)
        ELSE IF ChecksBackendStatus(src) /\ hh.bresp.status >= 400
        THEN Respond(hh, BackendErrorResponse(hh.bresp))
        ELSE IF dec.err
        THEN Respond(Invoke(hh, "BackendChatToUnified"),
                     HttpError("failed to translate provider response to unified format",
                               StatusInternalServerError))
        ELSE Respond(Invoke(Invoke(hh, "BackendChatToUnified"), "UnifiedChatToClient"),
                     UnifiedChatToClient(hh.clientAdapter, dec.val))

HandleEmbeddingTranslation(hh, clientAdapter, providerAdapter, providerURL, modelConfig) ==
    LET h1 == Invoke([hh EXCEPT !.workflow = "EmbeddingTranslation",
                                !.cfg = modelConfig,
                                !.clientAdapter = clientAdapter,
                                !.providerAdapter = providerAdapter],
                     "ClientEmbeddingToUnified")
        \* only the OpenAI-style decoder reads r.Body
        h2 == IF clientAdapter = "openai"
              THEN [h1 EXCEPT !.bodyReads = @ + 1, !.rBody = ReadAll(hh.rBody).stream,
                              !.seen = DecoderInput(hh.rBody)]
              ELSE h1
        dec == ClientEmbeddingToUnified(clientAdapter, DecoderInput(hh.rBody))
        enc == UnifiedEmbeddingToBackend(providerAdapter,
                                         RewriteUnifiedModel(dec.val, modelConfig))
    IN  IF dec.err
        THEN Respond(h2, HttpError(
                 "failed to translate client embedding request to unified format",
                 StatusInternalServerError))
        ELSE IF providerAdapter = "nil" THEN Panic(h2)
        ELSE IF enc.err
        THEN Respond(Invoke(h2, "UnifiedEmbeddingToBackend"), HttpError(
                 "failed to translate unified embedding request to provider format",
                 StatusInternalServerError))
        ELSE Do(Invoke(h2, "UnifiedEmbeddingToBackend"),
                OutboundRequest("POST", providerURL, TranslationHeader(modelConfig),
                                enc.val))

\* a handler that returns without writing: net/http answers 200, no body
ImplicitResponse == [status |-> StatusOK, header |-> NoHeader, body |-> EmptyText]

HandleEmbeddingTranslationAfterDo(hh) ==
    LET dec == BackendEmbeddingToUnified(hh.providerAdapter, hh.bresp.body)
    IN  IF hh.bresp.transportError
        THEN Respond(hh, HttpError("failed to make embedding request to provider",
                                   StatusBadGateway))
        ELSE IF dec.err
        THEN Respond(Invoke(hh, "BackendEmbeddingToUnified"), HttpError(
                 "failed to translate provider embedding response to unified format",
                 StatusInternalServerError))
        ELSE Respond(Invoke(Invoke(hh, "BackendEmbeddingToUnified"),
                            "UnifiedEmbeddingToClient"),
                     IF hh.clientAdapter = "openai"
                     THEN OpenAIUnifiedEmbeddingToClient(dec.val)
                     ELSE ImplicitResponse)

(***************************************************************************)
(* Handlers                                                                *)
(***************************************************************************)
\* fault variant: the path of the backend's own protocol
ChatBackendURL_ByProtocol(modelConfig) ==
    modelConfig.Target.URL \o
        (IF modelConfig.Type = "anthropic" THEN <<"messages">> ELSE <<"chat/completions">>)
\* modelConfig.Target.URL+"chat/completions"
ChatBackendURL(modelConfig) == modelConfig.Target.URL \o <<"chat/completions">>
\* modelConfig.Target.URL+"embeddings"
EmbeddingsBackendURL(modelConfig) == modelConfig.Target.URL \o <<"embeddings">>

ChatCompletions(hh, models) ==
    LET clientAdapterType == ClientTypeOfPath(hh.path)
        ex == extractModelFromRequest(hh)
        found == findModelConfig(models, ex.model)
        h1 == [ex.h EXCEPT !.clientType = clientAdapterType, !.alias = ex.model,
                           !.lookedUp = TRUE, !.cfg = found.cfg]
    IN  IF clientAdapterType = ""
        THEN Respond(hh, HttpError("unsupported endpoint", StatusNotFound))
        ELSE IF ex.err
        THEN Respond([ex.h EXCEPT !.clientType = clientAdapterType],
                     HttpError("failed to parse request body", StatusBadRequest))
        ELSE IF ~found.ok
        THEN Respond(h1, HttpError("model not supported", StatusNotFound))
        ELSE IF SelectWorkflow(clientAdapterType, found.cfg.Type) = "Passthrough"
        THEN HandlePassthrough(h1, ChatBackendURL(found.cfg), found.cfg)
        ELSE HandleTranslation(h1, AdapterFor(clientAdapterType),
                               AdapterFor(found.cfg.Type),
                               ChatBackendURL(found.cfg), found.cfg)

Embeddings(hh, models) ==
    LET clientAdapterType == "openai"
        ex == extractModelFromRequest(hh)
        found == findModelConfig(models, ex.model)
        h1 == [ex.h EXCEPT !.clientType = clientAdapterType, !.alias = ex.model,
                           !.lookedUp = TRUE, !.cfg = found.cfg]
    IN  IF ex.err
        THEN Respond([ex.h EXCEPT !.clientType = clientAdapterType],
                     HttpError("failed to parse request body", StatusBadRequest))
        ELSE IF ~found.ok
        THEN Respond(h1, HttpError("embedding model not supported", StatusNotFound))
        ELSE IF SelectWorkflow(clientAdapterType, found.cfg.Type) = "Passthrough"
        THEN HandlePassthrough(h1, EmbeddingsBackendURL(found.cfg), found.cfg)
        ELSE HandleEmbeddingTranslation(h1, AdapterFor(clientAdapterType),
                                        AdapterFor(found.cfg.Type),
                                        EmbeddingsBackendURL(found.cfg), found.cfg)

(***************************************************************************)
(* Inputs: requests of clients and answers of backends                     *)
(***************************************************************************)
S(p) == JStr(Plain(p))
O(members) == JObj(members)

\* message lists in the two client wire formats
MsgsHello == JArr(<<O(<<Member("role", S("user")), Member("content", S("Hello"))>>)>>)
MsgsBlocks ==
    JArr(<<O(<<Member("role", S("user")),
               Member("content", JArr(<<
                   O(<<Member("type", S("text")), Member("text", S("Hi"))>>),
                   O(<<Member("type", S("text")), Member("text", S(" there"))>>)>>))>>)>>)
ArgsA1 == JsonText(FALSE, O(<<Member("a", JInt(1))>>))
MsgsToolCall ==
    JArr(<<O(<<Member("role", S("assistant")), Member("content", S("")),
               Member("tool_calls", JArr(<<
                   O(<<Member("id", S("call_1")), Member("type", S("function")),
                       Member("function", O(<<Member("name", S("N")),
                                              Member("arguments", JStr(ArgsA1))>>))>>)>>))>>)>>)
MsgsToolResult ==
    JArr(<<O(<<Member("role", S("tool")), Member("tool_call_id", S("call_1")),
               Member("content", S("sunny"))>>)>>)

ChatPayloads == {<<Member("messages", m)>> :
                    m \in {MsgsHello, MsgsBlocks, MsgsToolCall, MsgsToolResult}}
EmbeddingPayloads ==
    {<<Member("input", JArr(<<S("Hello"), S("World")>>))>>,
     <<Member("input", S("Hello world"))>>,
     <<Member("input", JInt(5))>>}

RequestedModels == {"gpt-4", "gpt-4-local", "claude", "palm", "no-such-model"}
\* the "model" member: absent, null, a number, or a string
ModelMembers ==
    {<<>>, <<Member("model", JNull)>>, <<Member("model", JInt(7))>>}
    \cup {<<Member("model", S(a))>> : a \in RequestedModels}
\* another top-level member: absent, a small integer, 2^53 + 1
SeedMembers ==
    {<<>>, <<Member("seed", JInt(42))>>, <<Member("seed", JNum(2^23, 1))>>}

\* request bodies: objects in sorted compact layout or with the model first
\* and white space, and bodies that are no JSON object
Bodies(payloads) ==
    {Stream(JsonText(FALSE, O(p \o m \o sd))) :
        p \in payloads, m \in ModelMembers, sd \in SeedMembers}
    \cup {Stream(JsonText(TRUE, O(m \o p \o sd))) :
        p \in payloads, m \in ModelMembers, sd \in SeedMembers}
    \cup {BrokenStream, Stream(Plain("not json")), Stream(JsonText(FALSE, JNull)),
          Stream(JsonText(FALSE, JArr(<<>>)))}

\* bodies for the workflows called on their own (workflows_test.go)
PlainBodies(payloads) ==
    {Stream(JsonText(TRUE, O(<<Member("model", S("gpt-4"))>> \o p))) : p \in payloads}

ChatPaths == {"/v1/chat/completions", "/v1/messages", "/v1/unsupported"}
RequestHeaders ==
    {JSONHeader, HeaderSet(JSONHeader, "Authorization", Bearer("client-key")),
     HeaderAdd(HeaderSet(HeaderSet(JSONHeader, "X-Request-Id", <<"r1">>),
                         "Authorization", Bearer("client-key")),
               "Authorization", Bearer("other-key"))}

OpenAIChatResponse ==
    JsonText(TRUE, O(<<
        Member("id", S("chatcmpl-123")), Member("object", S("chat.completion")),
        Member("model", S("gpt-4")),
        Member("choices", JArr(<<O(<<
            Member("index", JInt(0)),
            Member("message", O(<<Member("role", S("assistant")),
                                  Member("content", S("Hello from mock backend!"))>>)),
            Member("finish_reason", S("stop"))>>)>>)),
        Member("usage", O(<<Member("prompt_tokens", JInt(10)),
                            Member("completion_tokens", JInt(5)),
                            Member("total_tokens", JInt(15))>>))>>))
AnthropicChatResponse ==
    JsonText(TRUE, O(<<
        Member("id", S("msg_1")), Member("type", S("message")),
        Member("role", S("assistant")),
        Member("content", JArr(<<O(<<Member("type", S("text")),
                                     Member("text", S("Hi"))>>)>>)),
        Member("model", S("claude-3-haiku-20240307")),
        Member("stop_reason", S("end_turn")),
        Member("usage", O(<<Member("input_tokens", JInt(10)),
                            Member("output_tokens", JInt(15))>>))>>))
EmbeddingResponse ==
    JsonText(FALSE, O(<<
        Member("object", S("list")),
        Member("data", JArr(<<
            O(<<Member("object", S("embedding")), Member("index", JInt(0)),
                Member("embedding", JArr(<<JInt(1), JInt(2)>>))>>)>>)),
        Member("model", S("text-embedding-ada-002"))>>))
BackendErrorBody ==
    JsonText(TRUE, O(<<Member("error", O(<<Member("message", S("bad key"))>>))>>))

BackendBodies == {OpenAIChatResponse, AnthropicChatResponse, EmbeddingResponse,
                  BackendErrorBody, Plain("upstream connect error"),
                  JsonText(FALSE, JNull)}
BackendStatuses == {200, 401, 429}
BackendHeaders ==
    {JSONHeader,
     HeaderAdd(HeaderAdd(JSONHeader, "Set-Cookie", <<"a=1">>), "Set-Cookie", <<"b=2">>)}
BackendResponses ==
    {[transportError |-> FALSE, status |-> st, header |-> hd, body |-> b] :
        st \in BackendStatuses, hd \in BackendHeaders, b \in BackendBodies}
TransportError == [transportError |-> TRUE]

(***************************************************************************)
(* Actions                                                                 *)
(***************************************************************************)
\* the server is ready for the next request
Ready == h.pc = "idle"

\* handler goroutines running at the same time
MaxInFlight == 2
Slots == 1..MaxInFlight
NoneInFlight == [s \in Slots |-> Idle]

\* a request arrives at the chat handler and is handled up to client.Do
HandleChatCompletions ==
    /\ Ready
    /\ \E path \in ChatPaths, hd \in RequestHeaders, body \in Bodies(ChatPayloads) :
           h' = ChatCompletions(NewRequest("HandleChatCompletions", path, hd, body),
                                registry)
    /\ UNCHANGED <<registry, translateSrc, codec, inflight>>

HandleEmbeddings ==
    /\ Ready
    /\ \E hd \in RequestHeaders, body \in Bodies(EmbeddingPayloads) :
           h' = Embeddings(NewRequest("HandleEmbeddings", "/v1/embeddings", hd, body),
                           registry)
    /\ UNCHANGED <<registry, translateSrc, codec, inflight>>

\* the workflows called with adapters of the caller's choice
CallHandleTranslation ==
    /\ Ready
    /\ \E ca \in Adapters, pa \in Adapters, alias \in DOMAIN registry,
          body \in PlainBodies(ChatPayloads) :
           h' = HandleTranslation(
                    NewRequest("HandleTranslation", "/v1/chat/completions",
                               JSONHeader, body),
                    ca, pa, registry[alias].Target.URL \o <<"chat/completions">>,
                    registry[alias])
    /\ UNCHANGED <<registry, translateSrc, codec, inflight>>

CallHandleEmbeddingTranslation ==
    /\ Ready
    /\ \E ca \in Adapters, pa \in Adapters, alias \in DOMAIN registry,
          body \in PlainBodies(EmbeddingPayloads) :
           h' = HandleEmbeddingTranslation(
                    NewRequest("HandleEmbeddingTranslation", "/v1/embeddings",
                               JSONHeader, body),
                    ca, pa, registry[alias].Target.URL \o <<"embeddings">>,
                    registry[alias])
    /\ UNCHANGED <<registry, translateSrc, codec, inflight>>

\* client.Do returns (a response or a transport error) and the workflow
\* runs to its end
PassthroughDoReturns ==
    /\ h.pc = "calling" /\ h.workflow = "Passthrough"
    /\ \E r \in BackendResponses \cup {TransportError} :
           h' = PassthroughAfterDo([h EXCEPT !.bresp = r])
    /\ UNCHANGED <<registry, translateSrc, codec, inflight>>

TranslationDoReturns ==
    /\ h.pc = "calling" /\ h.workflow = "Translation"
    /\ \E r \in BackendResponses \cup {TransportError} :
           h' = HandleTranslationAfterDo([h EXCEPT !.bresp = r], translateSrc)
    /\ UNCHANGED <<registry, translateSrc, codec, inflight>>

EmbeddingTranslationDoReturns ==
    /\ h.pc = "calling" /\ h.workflow = "EmbeddingTranslation"
    /\ \E r \in BackendResponses \cup {TransportError} :
           h' = HandleEmbeddingTranslationAfterDo([h EXCEPT !.bresp = r])
    /\ UNCHANGED <<registry, translateSrc, codec, inflight>>

\* ServeHTTP is over (the handler returned, or its panic was recovered by
\* net/http): the request state is dropped
HandlerReturns ==
    /\ h.pc \in {"done", "panicked"}
    /\ h' = Idle
    /\ UNCHANGED <<registry, translateSrc, codec, inflight>>

TranslateSources == {"translate.go", "part_005"}

Init ==
    /\ registry = StartupRegistry
    /\ translateSrc \in TranslateSources
    /\ h = Idle
    /\ codec = None
    /\ inflight = NoneInFlight

Next ==
    \/ HandleChatCompletions
    \/ HandleEmbeddings
    \/ CallHandleTranslation
    \/ CallHandleEmbeddingTranslation
    \/ PassthroughDoReturns
    \/ TranslationDoReturns
    \/ EmbeddingTranslationDoReturns
    \/ HandlerReturns

Spec == Init /\ [][Next]_vars

(***************************************************************************)
(* Concurrent requests.  net/http runs each handler in its own goroutine;  *)
(* the goroutines share the Broker (cfg.Models, adapters) and nothing      *)
(* else.  A handler's steps between two blocking points touch only its own *)
(* request, apart from the read of cfg.Models in findModelConfig, so each  *)
(* goroutine is interleaved at arrival, at the return of client.Do and at  *)
(* its end.                                                                *)
(***************************************************************************)
\* fault variant: the registry holds pointers and the handler writes the
\* entry it was given
CfgModels_WritesThrough(models, hh) ==
    IF hh.cfg # None /\ hh.workflow # ""
    THEN [models EXCEPT ![hh.cfg.Alias].Target.Model = hh.cfg.Alias]
    ELSE models
\* b.cfg.Models after a handler step that ended in state hh: findModelConfig
\* hands out the address of a copy of the map value, and no step assigns to
\* the map
CfgModels(models, hh) == models

ConcurrentAliases == {"gpt-4-local", "claude", "no-such-model"}
ConcurrentBody(payload, alias) ==
    Stream(JsonText(FALSE, O(payload \o <<Member("model", S(alias))>>)))
ConcurrentChatRequests ==
    {NewRequest("HandleChatCompletions", path, JSONHeader,
                ConcurrentBody(<<Member("messages", MsgsHello)>>, a)) :
        path \in {"/v1/chat/completions", "/v1/messages"}, a \in ConcurrentAliases}
ConcurrentEmbeddingRequests ==
    {NewRequest("HandleEmbeddings", "/v1/embeddings", JSONHeader,
                ConcurrentBody(<<Member("input", S("Hello world"))>>, a)) :
        a \in ConcurrentAliases}
ConcurrentBackendResponses ==
    {[transportError |-> FALSE, status |-> StatusOK, header |-> JSONHeader,
      body |-> OpenAIChatResponse],
     TransportError}

ServeChatCompletions ==
    \E s \in Slots, req \in ConcurrentChatRequests :
        /\ inflight[s].pc = "idle"
        /\ inflight' = [inflight EXCEPT ![s] = ChatCompletions(req, registry)]
        /\ registry' = CfgModels(registry, inflight'[s])
        /\ UNCHANGED <<translateSrc, h, codec>>

ServeEmbeddings ==
    \E s \in Slots, req \in ConcurrentEmbeddingRequests :
        /\ inflight[s].pc = "idle"
        /\ inflight' = [inflight EXCEPT ![s] = Embeddings(req, registry)]
        /\ registry' = CfgModels(registry, inflight'[s])
        /\ UNCHANGED <<translateSrc, h, codec>>

\* client.Do returns in one of the goroutines, which runs to its end
AfterDo(hh, src) ==
    IF hh.workflow = "Passthrough" THEN PassthroughAfterDo(hh)
    ELSE IF hh.workflow = "Translation" THEN HandleTranslationAfterDo(hh, src)
    ELSE HandleEmbeddingTranslationAfterDo(hh)
ClientDoReturns ==
    \E s \in Slots, r \in ConcurrentBackendResponses :
        /\ inflight[s].pc = "calling"
        /\ inflight' = [inflight EXCEPT
                           ![s] = AfterDo([inflight[s] EXCEPT !.bresp = r], translateSrc)]
        /\ registry' = CfgModels(registry, inflight'[s])
        /\ UNCHANGED <<translateSrc, h, codec>>

ServeHTTPReturns ==
    \E s \in Slots :
        /\ inflight[s].pc \in {"done", "panicked"}
        /\ inflight' = [inflight EXCEPT ![s] = Idle]
        /\ UNCHANGED <<registry, translateSrc, h, codec>>

ConcurrentInit ==
    /\ registry = StartupRegistry
    /\ translateSrc \in TranslateSources
    /\ h = Idle
    /\ codec = None
    /\ inflight = NoneInFlight

ConcurrentNext ==
    \/ ServeChatCompletions
    \/ ServeEmbeddings
    \/ ClientDoReturns
    \/ ServeHTTPReturns

ConcurrentSpec == ConcurrentInit /\ [][ConcurrentNext]_vars

(***************************************************************************)
(* Configuration load.  main calls config.Load and hands the result to     *)
(* broker.New before the server starts; requests are served from the       *)
(* loaded registry.                                                        *)
(***************************************************************************)
\* strings.CutPrefix(s, prefix)
CutPrefix(s, prefix) ==
    IF Len(s) >= Len(prefix) /\ SubSeq(s, 1, Len(prefix)) = prefix
    THEN [after |-> SubSeq(s, Len(prefix) + 1, Len(s)), found |-> TRUE]
    ELSE [after |-> s, found |-> FALSE]
\* os.Getenv: the empty string for a variable that is not set
Getenv(env, name) == IF name \in DOMAIN env THEN env[name] ELSE ""
\* the api_key of one entry after the loop body of Load
ResolveAPIKey(apiKey, env) ==
    LET cut == CutPrefix(apiKey, "env:")
    IN  IF cut.found /\ Getenv(env, cut.after) # "" THEN Getenv(env, cut.after)
        ELSE apiKey
\* cfg.Models built from cfg.RawModels: a later entry of the same alias
\* replaces an earlier one
Load(rawModels, env) ==
    LET aliases == {rawModels[i].Alias : i \in DOMAIN rawModels}
        last(a) == CHOOSE i \in DOMAIN rawModels :
                       /\ rawModels[i].Alias = a
                       /\ \A j \in DOMAIN rawModels : rawModels[j].Alias = a => j <= i
    IN  [a \in aliases |->
            [rawModels[last(a)] EXCEPT
                !.Target.APIKey = ResolveAPIKey(rawModels[last(a)].Target.APIKey, env)]]

NotLoaded == [a \in {} |-> None]
ConfiguredKeys == {"", "sk-literal", "env:BROKER_KEY"}
RawConfigs ==
    {<<Model("gpt-4-local", "openai", <<"http://localhost:11434/v1/">>, "llama3.1", k1),
       Model("claude", "anthropic", <<"http://mock-anthropic.com/v1/">>,
             "claude-3-haiku-20240307", k2)>> : k1 \in ConfiguredKeys, k2 \in ConfiguredKeys}
Environments ==
    {[n \in {} |-> ""], [n \in {"BROKER_KEY"} |-> ""], [n \in {"BROKER_KEY"} |-> "sk-from-env"]}

LoadConfig ==
    /\ registry = NotLoaded
    /\ \E rawModels \in RawConfigs, env \in Environments :
           registry' = Load(rawModels, env)
    /\ UNCHANGED <<translateSrc, h, codec, inflight>>

ServeLoaded ==
    /\ registry # NotLoaded /\ Ready
    /\ \E req \in ConcurrentChatRequests : h' = ChatCompletions(req, registry)
    /\ UNCHANGED <<registry, translateSrc, codec, inflight>>

LoadedDoReturns ==
    /\ registry # NotLoaded /\ h.pc = "calling"
    /\ \E r \in ConcurrentBackendResponses :
           h' = AfterDo([h EXCEPT !.bresp = r], translateSrc)
    /\ UNCHANGED <<registry, translateSrc, codec, inflight>>

ConfigInit ==
    /\ registry = NotLoaded
    /\ translateSrc \in TranslateSources
    /\ h = Idle
    /\ codec = None
    /\ inflight = NoneInFlight

ConfigNext ==
    \/ LoadConfig
    \/ ServeLoaded
    \/ LoadedDoReturns
    \/ HandlerReturns

ConfigSpec == ConfigInit /\ [][ConfigNext]_vars

(***************************************************************************)
(* Cancellation.  net/http cancels r.Context() when the client's           *)
(* connection goes away.  http.Client.Do returns when the backend answers, *)
(* when the transport fails, or when the context of the request it was     *)
(* given is done; only the last is guaranteed to happen.                   *)
(***************************************************************************)
\* the context of the outbound request is done
CtxDone(hh) == hh.out # None /\ hh.out.ctx = "Request" /\ hh.cancelled

ServeCancellable ==
    /\ Ready
    /\ \/ \E req \in ConcurrentChatRequests : h' = ChatCompletions(req, registry)
       \/ \E req \in ConcurrentEmbeddingRequests : h' = Embeddings(req, registry)
    /\ UNCHANGED <<registry, translateSrc, codec, inflight>>

ClientGoesAway ==
    /\ h.pc = "calling" /\ ~h.cancelled
    /\ h' = [h EXCEPT !.cancelled = TRUE]
    /\ UNCHANGED <<registry, translateSrc, codec, inflight>>

\* client.Do returns: the backend answered or the call failed
CancellableDoReturns ==
    /\ h.pc = "calling"
    /\ \E r \in ConcurrentBackendResponses :
           h' = AfterDo([h EXCEPT !.bresp = r], translateSrc)
    /\ UNCHANGED <<registry, translateSrc, codec, inflight>>

CancelNext ==
    \/ ServeCancellable
    \/ CallHandleEmbeddingTranslation
    \/ ClientGoesAway
    \/ CancellableDoReturns
    \/ HandlerReturns

\* the handler goroutine runs on to its end; a call whose context is done
\* returns; a backend is not obliged to answer
CancelSpec ==
    /\ Init /\ [][CancelNext]_vars
    /\ WF_vars(HandlerReturns)
    /\ WF_vars(CtxDone(h) /\ CancellableDoReturns)

(***************************************************************************)
(* Properties                                                              *)
(***************************************************************************)
Routed == h.pc # "idle" /\ h.entry \in {"HandleChatCompletions", "HandleEmbeddings"}
Answered == h.pc = "done"
GotBackendResponse == Answered /\ h.bresp # None /\ ~h.bresp.transportError
HasOp(op) == \E i \in DOMAIN h.ops : h.ops[i] = op

\* what the client put on the wire
SentJSON == ~h.sent.err /\ ParsesAsJSON(h.sent.data)
SentObject == SentJSON /\ h.sent.data.doc.k = "obj"
SentModelIs(a) == SentObject /\ Field(h.sent.data.doc, "model") = S(a)
KnownPath ==
    h.path \in {"/v1/chat/completions", "/v1/messages", "/v1/embeddings"}
PathProtocol ==
    IF h.path = "/v1/messages" THEN "anthropic" ELSE "openai"

\* C1: for a chat or embeddings request whose alias resolves in the
\* registry, the router enters Passthrough if and only if the protocol of
\* the request path equals the type of the target, and when they are equal
\* no adapter operation is invoked for the request.
C1_PassthroughIffSameProtocol ==
    \A a \in DOMAIN registry :
        (Routed /\ KnownPath /\ SentModelIs(a)) =>
            /\ h.workflow # ""
            /\ (h.workflow = "Passthrough") <=> (PathProtocol = registry[a].Type)
            /\ (PathProtocol = registry[a].Type) => h.ops = <<>>
C1_Witness ==
    /\ Routed /\ Answered /\ SentModelIs("claude") /\ h.path = "/v1/messages"
    /\ h.workflow = "Passthrough" /\ h.calls = 1

\* C2: a request on one of the three paths whose model alias is not a key
\* of the registry is answered 404, and no backend call is made for it.
SentAliasUnknown ==
    /\ SentJSON /\ ~UnmarshalModel(h.sent.data).err
    /\ \A a \in DOMAIN registry : UnmarshalModel(h.sent.data).model # Plain(a)
C2_UnknownAliasIs404 ==
    (Routed /\ KnownPath /\ SentAliasUnknown) =>
        /\ Answered /\ h.resp.status = StatusNotFound
        /\ h.calls = 0 /\ h.out = None
C2_Witness ==
    /\ Routed /\ Answered /\ SentModelIs("no-such-model")
    /\ h.path = "/v1/embeddings" /\ h.resp.status = StatusNotFound

\* C3: in Passthrough, when the alias equals target.model the outbound body
\* is byte-identical to the inbound body; when they differ the outbound
\* model field is target.model and every other top-level field keeps its
\* value.
OtherFieldsKept(inDoc, outDoc) ==
    /\ Keys(outDoc) \ {"model"} = Keys(inDoc) \ {"model"}
    /\ \A key \in Keys(inDoc) \ {"model"} :
           Value(Get(outDoc, key)) = Value(Get(inDoc, key))
C3_PassthroughBody ==
    (h.workflow = "Passthrough" /\ h.out # None) =>
        IF h.cfg.Alias = h.cfg.Target.Model
        THEN h.out.body = h.sent.data
        ELSE /\ ParsesAsJSON(h.out.body) /\ h.out.body.doc.k = "obj"
             /\ Field(h.out.body.doc, "model") = S(h.cfg.Target.Model)
             /\ OtherFieldsKept(h.sent.data.doc, h.out.body.doc)

\* C4: in the chat Translation workflow a backend status s >= 400 reaches
\* the client as status s, and the backend response is not given to the
\* backend adapter's response decoder.
C4_TranslationKeepsErrorStatus ==
    (h.workflow = "Translation" /\ GotBackendResponse /\ h.bresp.status >= 400) =>
        /\ h.resp.status = h.bresp.status
        /\ ~HasOp("BackendChatToUnified")

\* C5: in Passthrough, once the backend call returned a response, the
\* client response has the backend's status code, every backend header
\* with all of its values, and the backend's body byte for byte.
C5_PassthroughCopiesResponse ==
    (h.workflow = "Passthrough" /\ GotBackendResponse) =>
        /\ h.resp.status = h.bresp.status
        /\ h.resp.header = h.bresp.header
        /\ h.resp.body = h.bresp.body
C5_Witness ==
    /\ h.workflow = "Passthrough" /\ GotBackendResponse
    /\ h.bresp.status = 401 /\ "Set-Cookie" \in DOMAIN h.resp.header
    /\ Len(h.resp.header["Set-Cookie"]) = 2 /\ h.resp.body = BackendErrorBody

\* C6: a request causes at most one backend call, and a transport failure
\* of that call is answered 502 without a second call.
C6_AtMostOneBackendCall ==
    /\ h.calls <= 1
    /\ (Answered /\ h.bresp = TransportError) =>
           h.resp.status = StatusBadGateway /\ h.calls = 1
C6_Witness ==
    /\ Answered /\ h.bresp = TransportError /\ h.workflow = "Translation"
    /\ h.resp.status = StatusBadGateway

\* C7: the chat handler takes the client protocol from the path alone, and
\* for any other path answers 404 without reading the body, consulting the
\* registry or calling a backend.
C7_UnknownPathIs404 ==
    (h.pc # "idle" /\ h.entry = "HandleChatCompletions") =>
        /\ h.path = "/v1/chat/completions" => h.clientType = "openai"
        /\ h.path = "/v1/messages" => h.clientType = "anthropic"
        /\ h.path \notin {"/v1/chat/completions", "/v1/messages"} =>
               /\ Answered /\ h.resp.status = StatusNotFound
               /\ h.bodyReads = 0 /\ ~h.lookedUp /\ h.calls = 0 /\ h.workflow = ""
C7_Witness ==
    /\ Answered /\ h.entry = "HandleChatCompletions" /\ h.path = "/v1/unsupported"
    /\ SentModelIs("gpt-4") /\ h.resp.status = StatusNotFound

\* C8 as claimed: a body that cannot be read or is not JSON with a string
\* model field is answered 400, and nothing else happens.
Terminated400 ==
    /\ Answered /\ h.resp.status = StatusBadRequest
    /\ ~h.lookedUp /\ h.workflow = "" /\ h.calls = 0
SentWithoutStringModel ==
    ~SentObject \/ Field(h.sent.data.doc, "model").k # "str"
C8_AsClaimed ==
    (Routed /\ KnownPath /\ SentWithoutStringModel) => Terminated400
\* C8: a body that cannot be read, is not JSON, is a JSON value other than
\* an object or null, or has a model member that is neither a string nor
\* null, is answered 400 by the chat and embeddings handlers: no registry
\* lookup, no workflow, no backend call.
SentUndecodable ==
    \/ ~SentJSON
    \/ h.sent.data.doc.k \notin {"obj", "null"}
    \/ Field(AsObj(h.sent.data.doc), "model").k \notin {"str", "null"}
C8_UndecodableBodyIs400 ==
    (Routed /\ KnownPath /\ SentUndecodable) => Terminated400
C8_Witness ==
    /\ Routed /\ KnownPath /\ SentObject /\ Field(h.sent.data.doc, "model") = JInt(7)
    /\ Terminated400

\* C9: in both Translation workflows the model field of the outbound
\* request equals target.model, whatever model the client sent.
C9_TranslationModel ==
    (h.workflow \in {"Translation", "EmbeddingTranslation"} /\ h.out # None) =>
        /\ ParsesAsJSON(h.out.body) /\ h.out.body.doc.k = "obj"
        /\ Field(h.out.body.doc, "model") = S(h.cfg.Target.Model)
C9_Witness ==
    /\ h.workflow = "Translation" /\ h.out # None /\ Routed
    /\ SentModelIs("claude") /\ h.cfg.Target.Model # "claude"

(***************************************************************************)
(* The adapters on their own: a unified request is encoded for a backend   *)
(* and the produced body is decoded again                                  *)
(***************************************************************************)
MaxToolCalls == 2
MaxMessages == 1

\* 2^53 + 1
BigInt == JNum(2^23, 1)
ArgumentTexts ==
    {JsonText(FALSE, O(<<Member("a", JInt(1))>>)),
     JsonText(TRUE, O(<<Member("b", JInt(2)), Member("a", JInt(1))>>)),
     JsonText(FALSE, O(<<Member("a", BigInt)>>)),
     JsonText(FALSE, JNull),
     Plain("not json"),
     EmptyText}
UnifiedToolCalls ==
    {UnifiedToolCall(Plain("call_1"), Plain("function"), UnifiedFunctionCall(Plain("N"), a)) :
        a \in ArgumentTexts}
SeqsUpTo(set, n) == UNION {[1..len -> set] : len \in 0..n}
UnifiedMessages ==
    {UnifiedMessage(Plain("assistant"), c, tcs, EmptyText, EmptyText) :
        c \in {EmptyText, Plain("calling a tool")},
        tcs \in SeqsUpTo(UnifiedToolCalls, MaxToolCalls)}
    \cup {UnifiedMessage(Plain("tool"), c, <<>>, Plain("call_1"), EmptyText) :
        c \in {Plain("sunny"), JsonText(FALSE, S("sunny")), EmptyText}}
MaxTools == 2
UnifiedTools ==
    {UnifiedTool(Plain("function"), UnifiedFunction(Plain("get_weather"), Plain("Get the weather"),
                    O(<<Member("type", S("object"))>>))),
     UnifiedTool(Plain("function"), UnifiedFunction(Plain("N"), Plain("adds"),
                    O(<<Member("a", JInt(1)), Member("b", JInt(2))>>))),
     UnifiedTool(Plain("function"), UnifiedFunction(Plain("M"), EmptyText, None))}
UnifiedChatRequests ==
    {UnifiedChatRequest(Plain("claude-3-haiku-20240307"), msgs, FALSE, <<>>, None) :
        msgs \in SeqsUpTo(UnifiedMessages, MaxMessages)}
    \cup {UnifiedChatRequest(Plain("claude-3-haiku-20240307"), msgs, FALSE, tools, None) :
        msgs \in {<<>>, <<UnifiedMessage(Plain("user"), Plain("Hello"), <<>>, EmptyText, EmptyText)>>},
        tools \in SeqsUpTo(UnifiedTools, MaxTools)}
    \cup {UnifiedChatRequest(Plain("claude-3-haiku-20240307"),
                             <<UnifiedMessage(Plain("user"), Plain("Hello"), <<>>, EmptyText, EmptyText), m>>,
                             FALSE, <<>>, None) :
        m \in {msg \in UnifiedMessages : msg.ToolCalls # <<>>}}

CodecStart == [pc |-> "start", u |-> None, wire |-> None, back |-> None, client |-> None]

PickUnifiedChatRequest ==
    /\ codec.pc = "start"
    /\ \E u \in UnifiedChatRequests : codec' = [codec EXCEPT !.pc = "unified", !.u = u]
    /\ UNCHANGED <<registry, translateSrc, h, inflight>>

AnthropicEncodeRequest ==
    /\ codec.pc = "unified"
    /\ codec' = [codec EXCEPT !.pc = "encoded",
                              !.wire = AnthropicUnifiedChatToBackend(codec.u)]
    /\ UNCHANGED <<registry, translateSrc, h, inflight>>

OpenAIEncodeRequest ==
    /\ codec.pc = "unified"
    /\ codec' = [codec EXCEPT !.pc = "openaiEncoded",
                              !.wire = OpenAIUnifiedChatToBackend(codec.u)]
    /\ UNCHANGED <<registry, translateSrc, h, inflight>>

AnthropicDecodeRequest ==
    /\ codec.pc = "encoded" /\ ~codec.wire.err
    /\ codec' = [codec EXCEPT !.pc = "decoded",
                              !.back = AnthropicClientChatToUnified(codec.wire.val)]
    /\ UNCHANGED <<registry, translateSrc, h, inflight>>

\* responses of an Anthropic-style backend: content blocks of several types
MaxBlocks == 2
ResponseBlocks ==
    {O(<<Member("type", S("text")), Member("text", S("Hi"))>>),
     O(<<Member("type", S("text")), Member("text", S(" there"))>>),
     O(<<Member("type", S("text"))>>),
     O(<<Member("type", S("thinking")), Member("text", S("hmm"))>>),
     O(<<Member("type", S("tool_use")), Member("id", S("toolu_1")),
         Member("name", S("N")), Member("input", O(<<Member("a", JInt(1))>>))>>)}
AnthropicResponseOf(content) ==
    JsonText(FALSE, O(<<
        Member("id", S("msg_1")), Member("type", S("message")),
        Member("role", S("assistant"))>> \o content \o <<
        Member("model", S("claude-3-haiku-20240307")),
        Member("stop_reason", S("end_turn")),
        Member("usage", O(<<Member("input_tokens", JInt(10)),
                            Member("output_tokens", JInt(15))>>))>>))
AnthropicResponses ==
    {AnthropicResponseOf(<<Member("content", JArr(blocks))>>) :
        blocks \in SeqsUpTo(ResponseBlocks, MaxBlocks)}
    \cup {AnthropicResponseOf(<<>>), AnthropicResponseOf(<<Member("content", JNull)>>)}

PickAnthropicResponse ==
    /\ codec.pc = "start"
    /\ \E body \in AnthropicResponses :
           codec' = [codec EXCEPT !.pc = "response", !.wire = body]
    /\ UNCHANGED <<registry, translateSrc, h, inflight>>

AnthropicDecodeResponse ==
    /\ codec.pc = "response"
    /\ codec' = [codec EXCEPT !.pc = "unifiedResponse",
                              !.back = AnthropicBackendChatToUnified(codec.wire)]
    /\ UNCHANGED <<registry, translateSrc, h, inflight>>

OpenAIEncodeResponse ==
    /\ codec.pc = "unifiedResponse" /\ ~codec.back.err
    /\ codec' = [codec EXCEPT !.pc = "clientResponse",
                              !.client = OpenAIUnifiedChatToClient(codec.back.val)]
    /\ UNCHANGED <<registry, translateSrc, h, inflight>>

\* answers of an OpenAI-style embeddings backend to a request with
\* EmbeddingInputs: data entries carrying an index, listed in any order
MaxData == 2
EmbeddingInputs == <<Plain("Hello"), Plain("World")>>
EmbeddingDatum(index, vector) ==
    O(<<Member("object", S("embedding")), Member("index", JInt(index)),
        Member("embedding", JArr(vector))>>)
EmbeddingData ==
    {EmbeddingDatum(0, <<JInt(1), JInt(0)>>), EmbeddingDatum(1, <<JInt(0), JInt(2)>>)}
EmbeddingResponses ==
    {JsonText(FALSE, O(<<Member("object", S("list")), Member("data", JArr(data)),
                         Member("model", S("text-embedding-ada-002"))>>)) :
        data \in SeqsUpTo(EmbeddingData, MaxData)}

PickEmbeddingResponse ==
    /\ codec.pc = "start"
    /\ \E body \in EmbeddingResponses :
           codec' = [codec EXCEPT
                        !.pc = "embeddingResponse",
                        !.u = UnifiedEmbeddingRequest(EmbeddingInputs,
                                                      Plain("text-embedding-ada-002")),
                        !.wire = body]
    /\ UNCHANGED <<registry, translateSrc, h, inflight>>

OpenAIDecodeEmbeddingResponse ==
    /\ codec.pc = "embeddingResponse"
    /\ codec' = [codec EXCEPT !.pc = "unifiedEmbedding",
                              !.back = OpenAIBackendEmbeddingToUnified(codec.wire)]
    /\ UNCHANGED <<registry, translateSrc, h, inflight>>

OpenAIEncodeEmbeddingResponse ==
    /\ codec.pc = "unifiedEmbedding" /\ ~codec.back.err
    /\ codec' = [codec EXCEPT !.pc = "clientEmbedding",
                              !.client = OpenAIUnifiedEmbeddingToClient(codec.back.val)]
    /\ UNCHANGED <<registry, translateSrc, h, inflight>>

\* answers of an OpenAI-style chat backend: zero or more choices, with or
\* without usage counts; bodies without a choices member, among them an
\* error body; bodies that do not fit the response structure
MaxChoices == 2
OpenAIChoice(index, role, content, toolCalls, finishReason) ==
    O(<<Member("index", JInt(index)),
        Member("message", O(<<Member("role", S(role)), Member("content", content)>>
                            \o toolCalls)),
        Member("finish_reason", S(finishReason))>>)
OpenAIChoices ==
    {OpenAIChoice(0, "assistant", S("Hi"), <<>>, "stop"),
     OpenAIChoice(1, "assistant", JNull,
                  <<Member("tool_calls", JArr(<<
                      O(<<Member("id", S("call_1")), Member("type", S("function")),
                          Member("function", O(<<Member("name", S("N")),
                              Member("arguments", S("{\"a\":1}"))>>))>>)>>))>>,
                  "tool_calls"),
     OpenAIChoice(2, "model", S("Bye"), <<>>, "length")}
OpenAIUsageMembers ==
    {<<>>,
     <<Member("usage", O(<<Member("prompt_tokens", JInt(9)),
                           Member("completion_tokens", JInt(12)),
                           Member("total_tokens", JInt(21))>>))>>}
OpenAIResponseBodies ==
    {JsonText(FALSE, O(<<Member("id", S("chatcmpl-1")), Member("object", S("chat.completion")),
                         Member("model", S("gpt-4")), Member("choices", JArr(choices))>>
                       \o usage)) :
        choices \in SeqsUpTo(OpenAIChoices, MaxChoices), usage \in OpenAIUsageMembers}
    \cup {BackendErrorBody,
          JsonText(FALSE, O(<<>>)),
          JsonText(FALSE, O(<<Member("choices", JNull)>>)),
          JsonText(FALSE, O(<<Member("choices", S("none"))>>)),
          JsonText(FALSE, O(<<Member("id", JInt(5)), Member("choices", JArr(<<>>))>>)),
          Plain("upstream connect error")}

PickOpenAIResponse ==
    /\ codec.pc = "start"
    /\ \E body \in OpenAIResponseBodies :
           codec' = [codec EXCEPT !.pc = "openaiResponse", !.wire = body]
    /\ UNCHANGED <<registry, translateSrc, h, inflight>>

OpenAIDecodeResponse ==
    /\ codec.pc = "openaiResponse"
    /\ codec' = [codec EXCEPT !.pc = "openaiUnifiedResponse",
                              !.back = OpenAIBackendChatToUnified(codec.wire)]
    /\ UNCHANGED <<registry, translateSrc, h, inflight>>

OpenAIReencodeResponse ==
    /\ codec.pc = "openaiUnifiedResponse" /\ ~codec.back.err
    /\ codec' = [codec EXCEPT !.pc = "openaiClientResponse",
                              !.client = OpenAIUnifiedChatToClient(codec.back.val)]
    /\ UNCHANGED <<registry, translateSrc, h, inflight>>

\* bodies of an OpenAI-style client with the tool_choice member absent,
\* null, a string or an object
ToolChoiceMembers ==
    {<<>>, <<Member("tool_choice", JNull)>>, <<Member("tool_choice", S("auto"))>>,
     <<Member("tool_choice", S("none"))>>,
     <<Member("tool_choice", O(<<Member("type", S("function")),
                                 Member("function", O(<<Member("name", S("N"))>>))>>))>>}
OpenAIClientBodies ==
    {JsonText(ws, O(<<Member("model", S("claude")), Member("messages", m)>> \o tc)) :
        ws \in BOOLEAN, m \in {MsgsHello, MsgsToolCall}, tc \in ToolChoiceMembers}

PickOpenAIClientBody ==
    /\ codec.pc = "start"
    /\ \E body \in OpenAIClientBodies :
           codec' = [codec EXCEPT !.pc = "openaiBody", !.client = body]
    /\ UNCHANGED <<registry, translateSrc, h, inflight>>

\* the decoded request goes on to the backend encoders
OpenAIDecodeClientBody ==
    /\ codec.pc = "openaiBody"
    /\ LET dec == OpenAIClientChatToUnified(codec.client)
       IN  codec' = IF dec.err THEN [codec EXCEPT !.pc = "openaiUndecoded"]
                    ELSE [codec EXCEPT !.pc = "unified", !.u = dec.val]
    /\ UNCHANGED <<registry, translateSrc, h, inflight>>

\* the literal both adapters return as the generic error
GenericErrorBytes ==
    JsonText(TRUE, O(<<Member("error",
        O(<<Member("message", S("An error occurred at the backend.")),
            Member("type", S("broker_error"))>>))>>))
\* Decode into struct{Error struct{Message, Type, Code string}}
OpenAIErrorDecodes(body) ==
    /\ ParsesAsJSON(body) /\ IsObjLike(body.doc)
    /\ ObjOK(AsObj(body.doc), "error")
    /\ StringField(ObjOf(AsObj(body.doc), "error"), "message").ok
    /\ StringField(ObjOf(AsObj(body.doc), "error"), "type").ok
    /\ StringField(ObjOf(AsObj(body.doc), "error"), "code").ok
\* fault variant: the backend's error is dropped
OpenAITranslateError_Generic(body) == GenericErrorBytes
OpenAITranslateError(body) ==
    IF ~OpenAIErrorDecodes(body) THEN GenericErrorBytes
    ELSE LET e == ObjOf(AsObj(body.doc), "error")
         IN  Marshal(MapToObj("error" :> MapToObj(
                 ("message" :> JStr(StringField(e, "message").s))
              @@ ("type" :> JStr(StringField(e, "type").s))
              @@ ("code" :> JStr(StringField(e, "code").s)))))

ErrorObject(members) == O(<<Member("error", O(members))>>)
BackendErrorBodies ==
    {JsonText(ws, ErrorObject(<<Member("message", S("bad key")),
                                Member("type", S("invalid_request_error")),
                                Member("code", S("invalid_api_key"))>>)) : ws \in BOOLEAN}
    \cup {JsonText(FALSE, ErrorObject(<<Member("code", S("rate_limited")),
                                        Member("message", S("slow down"))>>)),
          JsonText(FALSE, ErrorObject(<<Member("message", S("bad key")),
                                        Member("type", S("invalid_request_error")),
                                        Member("code", JInt(429))>>)),
          JsonText(FALSE, ErrorObject(<<Member("message", S("bad key")),
                                        Member("type", S("invalid_request_error")),
                                        Member("code", JNull)>>)),
          JsonText(FALSE, O(<<Member("error", S("boom"))>>)),
          JsonText(FALSE, O(<<>>)), JsonText(FALSE, JNull), JsonText(FALSE, JArr(<<>>)),
          OpenAIChatResponse, Plain("upstream connect error"), EmptyText}

PickBackendErrorBody ==
    /\ codec.pc = "start"
    /\ \E body \in BackendErrorBodies :
           codec' = [codec EXCEPT !.pc = "errorBody", !.wire = body]
    /\ UNCHANGED <<registry, translateSrc, h, inflight>>

OpenAITranslateBackendError ==
    /\ codec.pc = "errorBody"
    /\ codec' = [codec EXCEPT !.pc = "errorTranslated",
                              !.back = OpenAITranslateError(codec.wire)]
    /\ UNCHANGED <<registry, translateSrc, h, inflight>>

\* bodies of an Anthropic-style client: string content, or content blocks
\* of several types
RequestBlocks ==
    {O(<<Member("type", S("text")), Member("text", S("Hi"))>>),
     O(<<Member("type", S("text")), Member("text", S(" there"))>>),
     O(<<Member("type", S("image")), Member("source", O(<<>>))>>),
     O(<<Member("type", S("tool_use")), Member("id", S("toolu_1")),
         Member("name", S("N")), Member("input", O(<<Member("a", JInt(1))>>))>>),
     O(<<Member("type", S("tool_use")), Member("id", S("toolu_2")),
         Member("name", S("M")), Member("input", O(<<Member("a", BigInt)>>))>>),
     O(<<Member("type", S("tool_use")), Member("id", S("toolu_3")),
         Member("name", S("N"))>>),
     O(<<Member("type", S("tool_result")), Member("tool_use_id", S("toolu_1")),
         Member("content", S("sunny"))>>)}
AnthropicClientMessage(content) ==
    O(<<Member("role", S("user")), Member("content", content)>>)
AnthropicClientBodies ==
    LET contents == {S("Hello")} \cup {JArr(bs) : bs \in SeqsUpTo(RequestBlocks, MaxBlocks)}
    IN  {JsonText(FALSE, O(<<Member("model", S("claude")), Member("max_tokens", JInt(100)),
                             Member("messages", JArr(first \o <<AnthropicClientMessage(c)>>))>>)) :
            c \in contents, first \in {<<>>, <<AnthropicClientMessage(S("Hello"))>>}}

PickAnthropicClientBody ==
    /\ codec.pc = "start"
    /\ \E body \in AnthropicClientBodies :
           codec' = [codec EXCEPT !.pc = "clientBody", !.wire = body]
    /\ UNCHANGED <<registry, translateSrc, h, inflight>>

AnthropicDecodeClientBody ==
    /\ codec.pc = "clientBody"
    /\ codec' = [codec EXCEPT !.pc = "clientDecoded",
                              !.back = AnthropicClientChatToUnified(codec.wire)]
    /\ UNCHANGED <<registry, translateSrc, h, inflight>>

\* the four embedding operations of the Anthropic-style adapter, called with
\* nil or with well-formed arguments
FreshWriter == [status |-> 0, header |-> NoHeader, body |-> EmptyText]
CallAnthropicEmbeddingOps ==
    /\ codec.pc = "start"
    /\ \E r \in {None, JsonText(FALSE, O(<<Member("input", JArr(<<S("Hello")>>)),
                                            Member("model", S("claude"))>>))},
          u \in {None, UnifiedEmbeddingRequest(EmbeddingInputs, Plain("claude"))},
          resp \in {None} \cup EmbeddingResponses,
          ur \in {None, UnifiedEmbeddingResponse(<<<<JInt(1)>>>>, Plain("claude"))},
          w \in {None, FreshWriter} :
           codec' = [codec EXCEPT
               !.pc = "anthropicEmbedding",
               !.u = [r |-> r, u |-> u, resp |-> resp, ur |-> ur, w |-> w],
               !.back = [ClientEmbeddingToUnified |-> AnthropicClientEmbeddingToUnified(r),
                         UnifiedEmbeddingToBackend |-> AnthropicUnifiedEmbeddingToBackend(u),
                         BackendEmbeddingToUnified |-> AnthropicBackendEmbeddingToUnified(resp),
                         UnifiedEmbeddingToClient |-> AnthropicUnifiedEmbeddingToClient(ur, w)]]
    /\ UNCHANGED <<registry, translateSrc, h, inflight>>

CodecDone ==
    /\ \/ codec.pc = "decoded" \/ (codec.pc = "encoded" /\ codec.wire.err)
       \/ codec.pc = "clientResponse"
       \/ (codec.pc = "unifiedResponse" /\ codec.back.err)
       \/ codec.pc = "clientEmbedding"
       \/ (codec.pc = "unifiedEmbedding" /\ codec.back.err)
       \/ codec.pc = "anthropicEmbedding"
       \/ codec.pc = "openaiEncoded"
       \/ codec.pc = "clientDecoded"
       \/ codec.pc = "errorTranslated"
       \/ codec.pc = "openaiUndecoded"
       \/ codec.pc = "openaiClientResponse"
       \/ (codec.pc = "openaiUnifiedResponse" /\ codec.back.err)
    /\ codec' = CodecStart
    /\ UNCHANGED <<registry, translateSrc, h, inflight>>

AdapterInit ==
    /\ registry = StartupRegistry
    /\ translateSrc \in TranslateSources
    /\ h = Idle
    /\ codec = CodecStart
    /\ inflight = NoneInFlight

AdapterNext ==
    \/ PickUnifiedChatRequest
    \/ AnthropicEncodeRequest
    \/ AnthropicDecodeRequest
    \/ OpenAIEncodeRequest
    \/ PickAnthropicResponse
    \/ AnthropicDecodeResponse
    \/ OpenAIEncodeResponse
    \/ PickEmbeddingResponse
    \/ OpenAIDecodeEmbeddingResponse
    \/ OpenAIEncodeEmbeddingResponse
    \/ CallAnthropicEmbeddingOps
    \/ PickAnthropicClientBody
    \/ AnthropicDecodeClientBody
    \/ PickOpenAIClientBody
    \/ OpenAIDecodeClientBody
    \/ PickBackendErrorBody
    \/ OpenAITranslateBackendError
    \/ PickOpenAIResponse
    \/ OpenAIDecodeResponse
    \/ OpenAIReencodeResponse
    \/ CodecDone

AdapterSpec == AdapterInit /\ [][AdapterNext]_vars

\* C10: a unified message with one tool call (id I, name N, arguments A
\* valid JSON text), encoded by the Anthropic encoder and decoded by the
\* Anthropic request decoder, comes back as a message with exactly one tool
\* call with id I, name N, type "function" and arguments semantically
\* equal to A.
ToolCallComesBack(m, back) ==
    /\ Len(back.ToolCalls) = 1
    /\ back.ToolCalls[1].ID = m.ToolCalls[1].ID
    /\ back.ToolCalls[1].Function.Name = m.ToolCalls[1].Function.Name
    /\ back.ToolCalls[1].Type = Plain("function")
    /\ SemanticallyEqual(back.ToolCalls[1].Function.Arguments,
                         m.ToolCalls[1].Function.Arguments)
C10_ToolCallRoundTrip ==
    \A i \in 1..MaxMessages :
        (/\ codec.pc \in {"encoded", "decoded"}
         /\ i \in DOMAIN codec.u.Messages
         /\ Len(codec.u.Messages[i].ToolCalls) = 1
         /\ ParsesAsJSON(codec.u.Messages[i].ToolCalls[1].Function.Arguments)) =>
            /\ ~codec.wire.err
            /\ codec.pc = "decoded" =>
                   /\ ~codec.back.err
                   /\ Len(codec.back.val.Messages) = Len(codec.u.Messages)
                   /\ ToolCallComesBack(codec.u.Messages[i], codec.back.val.Messages[i])

\* C11: for an Anthropic-style backend response the unified Content is the
\* concatenation, in order, of the text of its text-type content blocks,
\* all other block types ignored; the OpenAI-style client encoder then
\* writes a body with exactly one choice whose message.content is that
\* same string.
RECURSIVE TextOfTextBlocks(_)
TextOfTextBlocks(blocks) ==
    IF blocks = <<>> THEN EmptyText
    ELSE LET b == Head(blocks)
             t == IF Has(b, "type") /\ Get(b, "type") = S("text") /\ Has(b, "text")
                  THEN Get(b, "text").s ELSE EmptyText
         IN  Concat(t, TextOfTextBlocks(Tail(blocks)))
SentBlocks == ArrayOf(codec.wire.doc, "content")
C11_TextBlocksReachClient ==
    (codec.pc \in {"unifiedResponse", "clientResponse"}) =>
        /\ ~codec.back.err
        /\ codec.back.val.Content = TextOfTextBlocks(SentBlocks)
        /\ codec.pc = "clientResponse" =>
               LET choices == Field(codec.client.body.doc, "choices")
               IN  /\ choices.k = "arr" /\ Len(choices.a) = 1
                   /\ Field(Field(choices.a[1], "message"), "content")
                          = JStr(TextOfTextBlocks(SentBlocks))
C11_Witness ==
    /\ codec.pc = "clientResponse" /\ Len(SentBlocks) = 2
    /\ SentBlocks[1] = O(<<Member("type", S("thinking")), Member("text", S("hmm"))>>)
    /\ codec.back.val.Content = Plain("Hi")

\* C12: for an embeddings request with N inputs the unified embeddings
\* response has exactly N vectors and the vector at position i is the one
\* of the backend's data entry whose index is i, in whatever order the
\* backend lists its data entries.  (Stated for backend responses that
\* carry exactly one data entry per input.)
SentData == ArrayOf(codec.wire.doc, "data")
EntriesWithIndex(i) == {j \in DOMAIN SentData : Field(SentData[j], "index") = JInt(i)}
OneEntryPerInput ==
    /\ Len(SentData) = Len(codec.u.Input)
    /\ \A i \in DOMAIN codec.u.Input : Cardinality(EntriesWithIndex(i - 1)) = 1
C12_EmbeddingsIndexAligned ==
    (codec.pc \in {"unifiedEmbedding", "clientEmbedding"} /\ OneEntryPerInput) =>
        /\ ~codec.back.err
        /\ Len(codec.back.val.Embeddings) = Len(codec.u.Input)
        /\ \A i \in DOMAIN codec.u.Input :
               \A j \in EntriesWithIndex(i - 1) :
                   codec.back.val.Embeddings[i] = Field(SentData[j], "embedding").a

\* C13: each of the four embedding operations of the Anthropic-style
\* adapter returns an error for every input, nil arguments included, and
\* produces no request, no unified value and no bytes written to the
\* client.
C13_AnthropicEmbeddingsUnsupported ==
    (codec.pc = "anthropicEmbedding") =>
        /\ codec.back.ClientEmbeddingToUnified = [err |-> TRUE, val |-> None]
        /\ codec.back.UnifiedEmbeddingToBackend = [err |-> TRUE, val |-> None]
        /\ codec.back.BackendEmbeddingToUnified = [err |-> TRUE, val |-> None]
        /\ codec.back.UnifiedEmbeddingToClient.err
        /\ codec.back.UnifiedEmbeddingToClient.w = codec.u.w
C13_Witness ==
    /\ codec.pc = "anthropicEmbedding"
    /\ codec.u.r = None /\ codec.u.u # None /\ codec.u.w = FreshWriter
    /\ codec.u.resp # None /\ Len(ArrayOf(codec.u.resp.doc, "data")) = 2
    /\ codec.back.BackendEmbeddingToUnified.err

\* C17: every tool call written by the OpenAI-style backend encoder has an
\* arguments string that is valid JSON text: "{}" for empty arguments, the
\* arguments unchanged when they parse as JSON, and otherwise the JSON
\* string literal of the arguments.
EmittedArguments(i, j) ==
    Field(Field(Field(Field(codec.wire.val.doc, "messages").a[i], "tool_calls").a[j],
                "function"), "arguments")
C17_OpenAIArgumentsAreJSON ==
    (codec.pc = "openaiEncoded") =>
        /\ ~codec.wire.err
        /\ \A i \in DOMAIN codec.u.Messages :
               \A j \in DOMAIN codec.u.Messages[i].ToolCalls :
                   LET A == codec.u.Messages[i].ToolCalls[j].Function.Arguments
                       T == EmittedArguments(i, j)
                   IN  /\ T.k = "str" /\ ParsesAsJSON(T.s)
                       /\ A = EmptyText => T.s = JsonText(FALSE, JObj(<<>>))
                       /\ ParsesAsJSON(A) => T.s = A
                       /\ (A # EmptyText /\ ~ParsesAsJSON(A)) =>
                              T.s = JsonText(FALSE, JStr(A))
C17_Witness ==
    /\ codec.pc = "openaiEncoded" /\ Len(codec.u.Messages) = 1
    /\ Len(codec.u.Messages[1].ToolCalls) = 2
    /\ codec.u.Messages[1].ToolCalls[1].Function.Arguments = Plain("not json")
    /\ codec.u.Messages[1].ToolCalls[2].Function.Arguments = EmptyText
    /\ EmittedArguments(1, 1).s = JsonText(FALSE, JStr(Plain("not json")))

\* C18: the Anthropic-style request decoder keeps the number and order of
\* the messages; string content is copied; for array content the unified
\* content is the in-order concatenation of the text blocks, each tool_use
\* block with id, name and input gives one tool call in block order whose
\* arguments are the JSON text of the input, and a tool_result block with
\* tool_use_id and content sets the tool-call-id and makes the content the
\* JSON text of the result payload.
HasAll(b, keys) == \A key \in keys : Has(b, key)
BlocksOfType(blocks, type, keys) ==
    SelectSeq(blocks, LAMBDA b : Field(b, "type") = S(type) /\ HasAll(b, keys))
MessageDecodedAsClaimed(sent, got) ==
    LET c == Field(sent, "content")
        uses == BlocksOfType(c.a, "tool_use", {"id", "name", "input"})
        results == BlocksOfType(c.a, "tool_result", {"tool_use_id", "content"})
    IN  /\ c.k = "str" => got.Content = c.s /\ got.ToolCalls = <<>>
        /\ c.k = "arr" =>
               /\ Len(got.ToolCalls) = Len(uses)
               /\ \A j \in DOMAIN uses :
                      /\ got.ToolCalls[j].ID = Get(uses[j], "id").s
                      /\ got.ToolCalls[j].Function.Name = Get(uses[j], "name").s
                      /\ SemanticallyEqual(got.ToolCalls[j].Function.Arguments,
                                           JsonText(FALSE, Get(uses[j], "input")))
               /\ results = <<>> => got.Content = TextOfTextBlocks(c.a)
               /\ results # <<>> =>
                      \E k \in DOMAIN results :
                          /\ got.ToolCallID = Get(results[k], "tool_use_id").s
                          /\ SemanticallyEqual(got.Content,
                                               JsonText(FALSE, Get(results[k], "content")))
C18_AnthropicRequestDecoding ==
    (codec.pc = "clientDecoded") =>
        LET sent == Field(codec.wire.doc, "messages").a
        IN  /\ ~codec.back.err
            /\ Len(codec.back.val.Messages) = Len(sent)
            /\ \A i \in DOMAIN sent :
                   MessageDecodedAsClaimed(sent[i], codec.back.val.Messages[i])

\* C19: a unified message with a non-empty tool-call-id, non-empty content
\* and no tool calls is encoded by the Anthropic-style backend encoder
\* without error, as a message whose content is a single tool_result block
\* with tool_use_id equal to the tool-call-id and content carrying the
\* message content.
IsToolResultMessage(msg) ==
    msg.ToolCallID # EmptyText /\ msg.Content # EmptyText /\ msg.ToolCalls = <<>>
CarriesContent(v, content) ==
    \/ v = JStr(content)
    \/ ParsesAsJSON(content) /\ SemanticallyEqual(JsonText(FALSE, v), content)
EmittedAsToolResult(msg, emitted) ==
    LET c == Field(emitted, "content")
    IN  /\ c.k = "arr" /\ Len(c.a) = 1
        /\ Field(c.a[1], "type") = S("tool_result")
        /\ Field(c.a[1], "tool_use_id") = JStr(msg.ToolCallID)
        /\ Has(c.a[1], "content")
        /\ CarriesContent(Get(c.a[1], "content"), msg.Content)
C19_ToolResultMessageEncodes ==
    (/\ codec.pc = "encoded"
     /\ codec.u.Messages # <<>>
     /\ \A i \in DOMAIN codec.u.Messages : IsToolResultMessage(codec.u.Messages[i])) =>
        /\ ~codec.wire.err
        /\ \A i \in DOMAIN codec.u.Messages :
               EmittedAsToolResult(codec.u.Messages[i],
                                   Field(codec.wire.val.doc, "messages").a[i])

\* C20: every request body the Anthropic-style backend encoder produces has
\* a max_tokens member holding the positive fixed default, also for a
\* unified request with no messages and no tools; when the unified request
\* has tools, they are listed in a top-level tools member, each with name,
\* description and an input_schema equal to the tool's parameters.
IsPositive(v) == v.k = "num" /\ (v.hi > 0 \/ v.lo > 0)
ToolEmittedAtTopLevel(tool, emitted) ==
    /\ emitted.k = "obj"
    /\ Field(emitted, "name") = JStr(tool.Function.Name)
    /\ Field(emitted, "description") = JStr(tool.Function.Description)
    /\ Has(emitted, "input_schema")
    /\ IF tool.Function.Parameters = None
       THEN Get(emitted, "input_schema") = JNull
       ELSE Value(Get(emitted, "input_schema")) = Value(tool.Function.Parameters)
C20_AnthropicMaxTokensAndTools ==
    (codec.pc = "encoded" /\ ~codec.wire.err) =>
        LET body == codec.wire.val.doc
        IN  /\ Has(body, "max_tokens")
            /\ IsPositive(Get(body, "max_tokens"))
            /\ Get(body, "max_tokens") = JInt(AnthropicMaxTokens)
            /\ Len(codec.u.Tools) > 0 =>
                   /\ Field(body, "tools").k = "arr"
                   /\ Len(Field(body, "tools").a) = Len(codec.u.Tools)
                   /\ \A i \in DOMAIN codec.u.Tools :
                          ToolEmittedAtTopLevel(codec.u.Tools[i], Field(body, "tools").a[i])
C20_Witness ==
    /\ codec.pc = "encoded" /\ ~codec.wire.err
    /\ codec.u.Messages = <<>>
    /\ Len(codec.u.Tools) = 2
    /\ codec.u.Tools[1].Function.Parameters # None
    /\ codec.u.Tools[2].Function.Parameters = None

\* C15: extracting the model alias does not consume the request body.  Once
\* extractModelFromRequest has returned, with or without a parse error, the
\* request body read from its start yields exactly the bytes the client
\* sent, and the Passthrough and Translation stages read the complete
\* original body.
BodyYields(stream, bytes) == ~ReadAll(stream).err /\ ReadAll(stream).bytes = bytes
C15_ExtractLeavesBody ==
    (Routed /\ h.bodyReads >= 1 /\ ~h.sent.err) =>
        /\ h.workflow = "" => BodyYields(h.rBody, h.sent.data)
        /\ h.seen # None => h.seen = h.sent.data
C15_Witness ==
    /\ Routed /\ ~h.sent.err /\ SentObject
    /\ h.workflow = "Passthrough" /\ h.bodyReads = 2
    /\ h.seen = h.sent.data /\ h.out # None
C15_WitnessParseError ==
    /\ Routed /\ ~h.sent.err /\ ~SentJSON
    /\ h.bodyReads = 1 /\ h.workflow = "" /\ Answered
    /\ h.resp.status = StatusBadRequest
    /\ BodyYields(h.rBody, h.sent.data)

\* C16: in Passthrough the outbound request carries every inbound header
\* unchanged, except that with a non-empty API key in the registry entry the
\* Authorization header is exactly "Bearer <apiKey>", whatever the client
\* sent; with an empty API key the client's Authorization header, if any, is
\* forwarded as is.  In Translation the outbound request has the
\* Authorization header "Bearer <apiKey>" iff the API key is non-empty.
SameHeader(hd1, hd2, name) ==
    /\ name \in DOMAIN hd1 <=> name \in DOMAIN hd2
    /\ name \in DOMAIN hd1 => hd1[name] = hd2[name]
C16_OutboundAuthorization ==
    (h.pc # "idle" /\ h.out # None) =>
        LET apiKey == h.cfg.Target.APIKey
            names == (DOMAIN h.reqHeader \cup DOMAIN h.out.header) \ {"Authorization"}
        IN  /\ h.workflow = "Passthrough" =>
                   /\ \A n \in names : SameHeader(h.reqHeader, h.out.header, n)
                   /\ apiKey # "" =>
                          /\ "Authorization" \in DOMAIN h.out.header
                          /\ h.out.header["Authorization"] = <<<<"Bearer ", apiKey>>>>
                   /\ apiKey = "" => SameHeader(h.reqHeader, h.out.header, "Authorization")
            /\ h.workflow = "Translation" =>
                   /\ "Authorization" \in DOMAIN h.out.header <=> apiKey # ""
                   /\ apiKey # "" =>
                          h.out.header["Authorization"] = <<<<"Bearer ", apiKey>>>>
C16_Witness ==
    /\ h.pc # "idle" /\ h.out # None /\ h.workflow = "Passthrough"
    /\ h.cfg.Target.APIKey = "test-key"
    /\ "Authorization" \in DOMAIN h.reqHeader
    /\ Len(h.reqHeader["Authorization"]) = 2
    /\ "X-Request-Id" \in DOMAIN h.out.header
    /\ h.out.header["Authorization"] = <<<<"Bearer ", "test-key">>>>

\* C14: under any interleaving of concurrently handled requests the registry
\* equals the registry at startup, and the routing decision and the
\* outbound model of each request depend only on the request's path and
\* body and on the startup registry: they are the ones the startup registry
\* gives for the alias in the body, and two requests with the same path and
\* body are routed alike whatever else is in flight.
RoutedByStartupRegistry(r) ==
    LET a == Field(r.sent.data.doc, "model").s.p
    IN  IF a \in DOMAIN StartupRegistry
        THEN /\ r.cfg = StartupRegistry[a]
             /\ r.workflow # ""
             /\ (r.workflow = "Passthrough") <=>
                    (StartupRegistry[a].Type =
                        (IF r.path = "/v1/messages" THEN "anthropic" ELSE "openai"))
             /\ (r.out # None /\ ParsesAsJSON(r.out.body)) =>
                    Field(r.out.body.doc, "model") = S(StartupRegistry[a].Target.Model)
        ELSE r.cfg = None /\ r.workflow = "" /\ r.out = None
SameRequest(r1, r2) ==
    r1.entry = r2.entry /\ r1.path = r2.path /\ r1.sent = r2.sent
RoutedAlike(r1, r2) ==
    /\ r1.workflow = r2.workflow /\ r1.cfg = r2.cfg
    /\ (r1.out # None /\ r2.out # None) => r1.out = r2.out
C14_RegistryReadOnly ==
    /\ registry = StartupRegistry
    /\ \A s \in Slots : inflight[s].lookedUp => RoutedByStartupRegistry(inflight[s])
    /\ \A s, t \in Slots :
           (inflight[s].lookedUp /\ inflight[t].lookedUp
            /\ SameRequest(inflight[s], inflight[t])) =>
               RoutedAlike(inflight[s], inflight[t])
C14_Witness ==
    /\ registry = StartupRegistry
    /\ inflight[1].pc = "calling" /\ inflight[1].workflow = "Translation"
    /\ inflight[2].pc = "done" /\ inflight[2].workflow = "Passthrough"
    /\ inflight[2].bresp # None
    /\ inflight[2].cfg.Target.Model # inflight[2].cfg.Alias

\* C21: in the chat Translation workflow with a backend status >= 400 the
\* body sent to the client is semantically equal to the backend's error
\* body when that body parses as a JSON object, and is otherwise the generic
\* broker-error body (message "An error occurred at the backend.", type
\* "broker_error"); the client response Content-Type is application/json
\* in both cases.
GenericErrorValue ==
    Value(O(<<Member("error", O(<<Member("message", S("An error occurred at the backend.")),
                                  Member("type", S("broker_error"))>>))>>))
C21_TranslationErrorBody ==
    (h.workflow = "Translation" /\ GotBackendResponse /\ h.bresp.status >= 400) =>
        /\ "Content-Type" \in DOMAIN h.resp.header
        /\ h.resp.header["Content-Type"] = <<<<"application/json">>>>
        /\ IF ParsesAsJSON(h.bresp.body) /\ h.bresp.body.doc.k = "obj"
           THEN SemanticallyEqual(h.resp.body, h.bresp.body)
           ELSE ParsesAsJSON(h.resp.body) /\ Value(h.resp.body.doc) = GenericErrorValue

\* C22: the OpenAI-style error translation returns, for a backend body that
\* decodes as {error:{message,type,code}}, an error body with the same
\* message, type and code values; for a body that fails to decode it
\* returns the generic broker-error body; the result is a non-empty JSON
\* body for every input.
IsErrorShape(body) ==
    /\ ParsesAsJSON(body) /\ body.doc.k = "obj"
    /\ Field(body.doc, "error").k = "obj"
    /\ \A key \in {"message", "type", "code"} :
           Field(Get(body.doc, "error"), key).k \in {"str", "null"}
FailsToDecode(body) ==
    \/ ~ParsesAsJSON(body)
    \/ body.doc.k \notin {"obj", "null"}
    \/ body.doc.k = "obj" /\ Field(body.doc, "error").k \notin {"obj", "null"}
    \/ /\ body.doc.k = "obj" /\ Field(body.doc, "error").k = "obj"
       /\ \E key \in {"message", "type", "code"} :
              Field(Get(body.doc, "error"), key).k \notin {"str", "null"}
C22_OpenAIErrorTranslation ==
    (codec.pc = "errorTranslated") =>
        /\ ParsesAsJSON(codec.back) /\ codec.back # EmptyText
        /\ IsErrorShape(codec.wire) =>
               /\ Field(codec.back.doc, "error").k = "obj"
               /\ \A key \in {"message", "type", "code"} :
                      Field(Get(codec.wire.doc, "error"), key).k = "str" =>
                          Field(Get(codec.back.doc, "error"), key)
                              = Get(Get(codec.wire.doc, "error"), key)
        /\ FailsToDecode(codec.wire) => Value(codec.back.doc) = GenericErrorValue
C22_Witness ==
    /\ codec.pc = "errorTranslated"
    /\ codec.wire.x = "json" /\ codec.wire.ws
    /\ IsErrorShape(codec.wire)
    /\ Field(Get(codec.back.doc, "error"), "code") = S("invalid_api_key")
    /\ Field(Get(codec.back.doc, "error"), "message") = S("bad key")

\* C23: the URL of every backend call is the registry entry's target URL
\* followed by "chat/completions" for requests handled by the chat handler
\* (both client paths, both backend types, both workflows) and by
\* "embeddings" for requests handled by the embeddings handler.
EntryOfRequest == registry[Field(h.sent.data.doc, "model").s.p]
C23_BackendURL ==
    (Routed /\ h.calls > 0) =>
        /\ h.entry = "HandleChatCompletions" =>
               h.out.url = EntryOfRequest.Target.URL \o <<"chat/completions">>
        /\ h.entry = "HandleEmbeddings" =>
               h.out.url = EntryOfRequest.Target.URL \o <<"embeddings">>
C23_Witness ==
    /\ Routed /\ h.calls > 0 /\ h.entry = "HandleChatCompletions"
    /\ h.path = "/v1/chat/completions" /\ h.workflow = "Translation"
    /\ h.cfg.Type = "anthropic"
    /\ h.out.url = <<"http://mock-anthropic.com/v1/", "chat/completions">>

\* C24: after configuration load every registry entry's API key is a
\* resolved literal or the empty string, never the unresolved text with the
\* "env:" prefix, and no outbound request carries such a text as its Bearer
\* token; this includes an environment variable that is unset or empty.
IsUnresolved(key) == Len(key) >= 4 /\ SubSeq(key, 1, 4) = "env:"
C24_KeysResolved ==
    /\ \A a \in DOMAIN registry : ~IsUnresolved(registry[a].Target.APIKey)
    /\ (h.pc # "idle" /\ h.out # None /\ "Authorization" \in DOMAIN h.out.header) =>
           \A i \in DOMAIN h.out.header["Authorization"] :
               ~IsUnresolved(h.out.header["Authorization"][i][2])

\* C25: if the inbound request is cancelled while its backend call is in
\* flight, the cancellation reaches that call and the call is eventually
\* aborted, in Passthrough and in both Translation workflows: a cancelled
\* request does not stay in its backend call.
C25_CancellationPropagates ==
    (h.pc = "calling" /\ h.cancelled) ~> (h.pc # "calling")

\* C26: in a chat Translation from an OpenAI-style client a tool_choice
\* given as a string or as an object is carried unchanged into the unified
\* request and is present with the same value in the outbound backend
\* request, for either backend adapter; an absent tool_choice stays absent.
FromOpenAIClient == codec.client # None /\ codec.pc \in {"encoded", "openaiEncoded"}
C26_ToolChoiceCarried ==
    (FromOpenAIClient /\ ~codec.wire.err) =>
        LET sent == codec.client.doc
            out == codec.wire.val.doc
        IN  /\ (Has(sent, "tool_choice") /\ Get(sent, "tool_choice").k \in {"str", "obj"}) =>
                   /\ codec.u.ToolChoice # None
                   /\ Value(codec.u.ToolChoice) = Value(Get(sent, "tool_choice"))
                   /\ Has(out, "tool_choice")
                   /\ Value(Get(out, "tool_choice")) = Value(Get(sent, "tool_choice"))
            /\ ~Has(sent, "tool_choice") =>
                   codec.u.ToolChoice = None /\ ~Has(out, "tool_choice")

\* C27: for every request and every registry entry, including an entry
\* whose type is neither "openai" nor "anthropic", the chat and embeddings
\* handlers end with an HTTP response written to the client and never with a
\* crash caused by a call on a missing adapter instance.
C27_NoCallOnMissingAdapter ==
    Routed => h.pc # "panicked"

\* C28 as stated: an embeddings request whose alias resolves to an
\* Anthropic-type target is routed to embedding Translation, fails at the
\* backend-encode stage, and is answered with an error status without a
\* backend call; every backend call made for an embeddings request is made
\* by the Passthrough workflow.
EmbeddingsForAnthropic ==
    /\ Routed /\ h.entry = "HandleEmbeddings"
    /\ h.cfg # None /\ h.cfg.Type = "anthropic"
EmbeddingCallsArePassthrough ==
    (Routed /\ h.entry = "HandleEmbeddings" /\ h.calls > 0) => h.workflow = "Passthrough"
InputIsStringList ==
    LET input == Field(h.sent.data.doc, "input")
    IN  input.k = "arr" /\ \A i \in DOMAIN input.a : input.a[i].k = "str"
EmittedAsFirstToolUse(msg, emitted) ==
    LET c == Field(emitted, "content")
    IN  /\ Keys(emitted) = {"role", "content"}
        /\ c.k = "arr" /\ Len(c.a) = 1
        /\ Keys(c.a[1]) = {"type", "id", "name", "input"}
        /\ Get(c.a[1], "type") = S("tool_use")
        /\ Get(c.a[1], "id") = JStr(msg.ToolCalls[1].ID)
        /\ Get(c.a[1], "name") = JStr(msg.ToolCalls[1].Function.Name)
        /\ SemanticallyEqual(JsonText(FALSE, Get(c.a[1], "input")),
                             msg.ToolCalls[1].Function.Arguments)
C29_FirstToolCallOnly ==
    (codec.pc = "encoded" /\ ~codec.wire.err) =>
        LET out == Field(codec.wire.val.doc, "messages")
        IN  /\ out.k = "arr" /\ Len(out.a) = Len(codec.u.Messages)
            /\ \A i \in DOMAIN codec.u.Messages :
                   /\ Field(out.a[i], "role") = JStr(codec.u.Messages[i].Role)
                   /\ Len(codec.u.Messages[i].ToolCalls) >= 1 =>
                          EmittedAsFirstToolUse(codec.u.Messages[i], out.a[i])
C29_Witness ==
    /\ codec.pc = "encoded" /\ ~codec.wire.err
    /\ Len(codec.u.Messages) = 2
    /\ codec.u.Messages[1].Role # codec.u.Messages[2].Role
    /\ Len(codec.u.Messages[2].ToolCalls) = 2
    /\ codec.u.Messages[2].ToolCalls[1] # codec.u.Messages[2].ToolCalls[2]
    /\ codec.u.Messages[2].Content # EmptyText

\* C30: the OpenAI-style response decoder, when it decodes a response with
\* one or more choices, takes role, content, finish reason and tool calls
\* from the first choice and nothing from a later one, and gives
\* prompt_tokens as input tokens and completion_tokens as output tokens; a
\* response object with no choices, such as an error body, decodes without
\* error to a unified response with empty role and content, and the client
\* encoder emits that response with status 200.
TextOf(v) == IF v.k = "str" THEN v.s ELSE EmptyText
CountOf(o, key) ==
    IF o.k = "obj" /\ Field(o, key).k = "num" THEN Field(o, key) ELSE JInt(0)
ChoicesOf(body) ==
    IF body.doc.k = "obj" /\ Field(body.doc, "choices").k = "arr"
    THEN Field(body.doc, "choices").a ELSE <<>>
\* a response object whose members other than choices have the types of the
\* OpenAI chat completion object, and that lists no choice
IsZeroChoiceResponse(body) ==
    /\ ParsesAsJSON(body) /\ body.doc.k = "obj"
    /\ Field(body.doc, "choices").k \in {"null", "arr"}
    /\ ChoicesOf(body) = <<>>
    /\ \A key \in {"id", "object", "model"} : Field(body.doc, key).k \in {"null", "str"}
    /\ Field(body.doc, "usage").k \in {"null", "obj"}
ToolCallTakenFrom(tc, v) ==
    /\ tc.ID = TextOf(Field(v, "id"))
    /\ tc.Type = TextOf(Field(v, "type"))
    /\ tc.Function.Name = TextOf(Field(Field(v, "function"), "name"))
    /\ tc.Function.Arguments = TextOf(Field(Field(v, "function"), "arguments"))
TakenFromFirstChoice(u, body) ==
    LET first == ChoicesOf(body)[1]
        msg == Field(first, "message")
        tcs == IF Field(msg, "tool_calls").k = "arr" THEN Field(msg, "tool_calls").a
               ELSE <<>>
    IN  /\ u.Role = TextOf(Field(msg, "role"))
        /\ u.Content = TextOf(Field(msg, "content"))
        /\ u.StopReason = TextOf(Field(first, "finish_reason"))
        /\ Len(u.ToolCalls) = Len(tcs)
        /\ \A j \in DOMAIN tcs : ToolCallTakenFrom(u.ToolCalls[j], tcs[j])
UsageMapped(u, body) ==
    /\ u.Usage.InputTokens = CountOf(Field(body.doc, "usage"), "prompt_tokens")
    /\ u.Usage.OutputTokens = CountOf(Field(body.doc, "usage"), "completion_tokens")
C30_FirstChoiceOnly ==
    /\ (codec.pc = "openaiUnifiedResponse" /\ ~codec.back.err) =>
           /\ UsageMapped(codec.back.val, codec.wire)
           /\ ChoicesOf(codec.wire) # <<>> =>
                  TakenFromFirstChoice(codec.back.val, codec.wire)
    /\ (codec.pc = "openaiUnifiedResponse" /\ IsZeroChoiceResponse(codec.wire)) =>
           /\ ~codec.back.err
           /\ codec.back.val.Role = EmptyText
           /\ codec.back.val.Content = EmptyText
    /\ (codec.pc = "openaiClientResponse" /\ IsZeroChoiceResponse(codec.wire)) =>
           codec.client.status = 200
C30_Witness ==
    /\ codec.pc = "openaiUnifiedResponse" /\ ~codec.back.err
    /\ Len(ChoicesOf(codec.wire)) = 2
    /\ Field(ChoicesOf(codec.wire)[1], "message") # Field(ChoicesOf(codec.wire)[2], "message")
    /\ Field(ChoicesOf(codec.wire)[1], "finish_reason")
           # Field(ChoicesOf(codec.wire)[2], "finish_reason")
    /\ Has(codec.wire.doc, "usage")
C30_WitnessErrorBody ==
    /\ codec.pc = "openaiClientResponse"
    /\ codec.wire = BackendErrorBody
    /\ codec.client.status = 200

====
